---- MODULE Spec2Model ----
(***************************************************************************)
(* A model of the quantitative narrative-control core of the novel-writing *)
(* agent: the reversal sequence optimizer, the emotional valence scorer,   *)
(* the success-score aggregator, the staged generation pipeline, the       *)
(* semantic pacing controller and the temporal technique selection.        *)
(*                                                                         *)
(* Floats are modelled exactly as fixed-point integers: ONE stands for 1.0 *)
(* (320 = 32 * 10, so that tenths and the smoothstep values k/32 are both  *)
(* integers).  Rounding of IEEE doubles is not modelled.                   *)
(***************************************************************************)
EXTENDS Integers, Sequences, FiniteSets, TLC

VARIABLES
  \* ---- ComputationalNarratologyEngine.optimize_reversal_sequence ----
  base_sequence,        \* the argument: a sequence of targets
  opt_i,                \* the loop index i of enumerate(base_sequence)
  current_state,        \* the running current_state
  optimized_reversals,  \* the list being built
  opt_pc,               \* "loop" | "returned" | "raised"
  \* ---- ComputationalNarratologyEngine.calculate_narrative_success_probability ----
  metrics,              \* the argument of the last call (a partial mapping)
  success_score,        \* its return value, in units of 1 / SCORE_ONE
  score_pc,             \* "idle" | "returned"
  \* ---- EmotionalValenceTracker ----
  valence_history,      \* self.valence_history
  current_valence,      \* self.current_valence
  emotional_events,     \* self.emotional_events
  val_args,             \* (scene_text, scene_position) of the last call
  val_result,           \* the value the last call returned
  \* ---- ComputationallyOptimizedFantasyEngine and main ----
  pc,                   \* the graph node about to run, "END", "exception" or "done"
  plot_events,          \* len(state["basic_plot"]["events"])
  reversal_map,         \* state["reversal_map"]["chapter_reversals"]
  reading_path,         \* state["nonlinear_structure"]["reading_path"]
  write_k,              \* chapters of reading_path the write loop has finished
  llm_pending,          \* a call of self.llm.ainvoke is awaited for a chapter
  llm_calls,            \* number of ainvoke calls issued so far
  prompt,               \* the prompt of the latest chapter call
  local_manuscript,     \* the local dict `manuscript` of the write node
  st_manuscript,        \* state["manuscript"]
  narrative_metrics,    \* state["narrative_metrics"]
  final_result,         \* state["final_result"]
  failed_chapter,       \* the chapter whose generation call raised, else 0
  main_result,          \* what main() returned
  \* ---- SemanticPacingController ----
  sem_pc,               \* "idle" or the method that was called
  sem_args,             \* the arguments of the call
  sem_result,           \* the value the call returned
  \* ---- TemporalStructureDesigner._select_optimal_techniques ----
  tech_pc,              \* "idle" | "returned"
  plot_analysis,        \* the argument of the call
  selected_techniques,  \* the list the call returned
  \* ---- SemanticPacingController._optimize_semantic_journey ----
  journey_pc,           \* "idle" | "loop" | "returned"
  journey_input,        \* the argument event_positions
  journey_remaining,    \* the local remaining_events
  journey_sequence,     \* the local optimized_sequence
  journey_position,     \* the local current_position
  journey_steps,        \* calls of _select_next_event made so far
  \* ---- TemporalStructureDesigner.create_temporal_complexity ----
  dsg_pc,               \* "idle" | "returned" | "raised"
  dsg_plot,             \* the argument linear_plot of the call
  dsg_result            \* the dict the call returned, or the exception raised

optVars == <<base_sequence, opt_i, current_state, optimized_reversals, opt_pc>>

scoreVars == <<metrics, success_score, score_pc>>

valVars == <<valence_history, current_valence, emotional_events, val_args, val_result>>

pipeVars ==
  <<pc, plot_events, reversal_map, reading_path, write_k, llm_pending, llm_calls,
    prompt, local_manuscript, st_manuscript, narrative_metrics, final_result,
    failed_chapter, main_result>>

semVars == <<sem_pc, sem_args, sem_result>>

techVars == <<tech_pc, plot_analysis, selected_techniques>>

journeyVars ==
  <<journey_pc, journey_input, journey_remaining, journey_sequence, journey_position,
    journey_steps>>

dsgVars == <<dsg_pc, dsg_plot, dsg_result>>

vars == <<optVars, scoreVars, valVars, pipeVars, semVars, techVars, journeyVars, dsgVars>>

----------------------------------------------------------------------------
(* Fixed-point arithmetic                                                  *)

ONE == 320

\* 0.8, the minimum intensity of optimize_reversal_sequence
MIN_INTENSITY == 256

\* 0.3, the direction threshold of _select_optimal_reversal_type
DIRECTION_THRESHOLD == 96

\* 0.2, the half-width of random.uniform(-0.2, 0.2)
JITTER == 64

Abs(x) == IF x < 0 THEN -x ELSE x

Min2(a, b) == IF a < b THEN a ELSE b

Max2(a, b) == IF a > b THEN a ELSE b

\* max(-1.0, min(1.0, x))
Clamp(x) == Max2(-ONE, Min2(ONE, x))

----------------------------------------------------------------------------
(* ReversalType and the optimizer's helpers                                *)

ReversalType ==
  {"classic_peripeteia", "false_defeat", "betrayal_cascade",
   "pyrrhic_victory", "recognition_scene", "role_reversal"}

\* a classifier that forgets the middle band 3 <= position < 8
XSelectNoMiddle(current, target, position) ==
  LET is_positive_to_negative == current > DIRECTION_THRESHOLD /\ target < -DIRECTION_THRESHOLD
      is_negative_to_positive == current < -DIRECTION_THRESHOLD /\ target > DIRECTION_THRESHOLD
      is_early == position < 3
  IN  IF is_positive_to_negative
        THEN IF is_early THEN "betrayal_cascade" ELSE "pyrrhic_victory"
        ELSE IF is_negative_to_positive THEN "recognition_scene"
        ELSE "role_reversal"

\* the classifier of a (current, target, position) triple
_select_optimal_reversal_type(current, target, position) ==
  LET is_positive_to_negative == current > DIRECTION_THRESHOLD /\ target < -DIRECTION_THRESHOLD
      is_negative_to_positive == current < -DIRECTION_THRESHOLD /\ target > DIRECTION_THRESHOLD
      is_early == position < 3
      is_middle == 3 <= position /\ position < 8
  IN  IF is_positive_to_negative
        THEN IF is_early THEN "betrayal_cascade"
             ELSE IF is_middle THEN "classic_peripeteia"
             ELSE "pyrrhic_victory"
        ELSE IF is_negative_to_positive
          THEN IF is_middle THEN "false_defeat" ELSE "recognition_scene"
          ELSE "role_reversal"

\* a table that lacks the entry of one enum member
XFunctionsMissingKey ==
  [t \in ReversalType \ {"recognition_scene"} |->
     CASE t = "classic_peripeteia" -> "punishment of and lesson for the hero's hubris"
       [] t = "false_defeat"       -> "reveals hidden strength and allies"
       [] t = "betrayal_cascade"   -> "fragility of trust and complexity of relations"
       [] t = "pyrrhic_victory"    -> "shows the true price of power and success"
       [] OTHER                    -> "reversal of standing and a new viewpoint"]

\* The dict `functions` of _determine_narrative_function.  The Japanese
\* strings of the source are rendered by their English meaning.
functions ==
  [t \in ReversalType |->
     CASE t = "classic_peripeteia" -> "punishment of and lesson for the hero's hubris"
       [] t = "false_defeat"       -> "reveals hidden strength and allies"
       [] t = "betrayal_cascade"   -> "fragility of trust and complexity of relations"
       [] t = "pyrrhic_victory"    -> "shows the true price of power and success"
       [] t = "recognition_scene"  -> "disclosure of truth and self-recognition"
       [] t = "role_reversal"      -> "reversal of standing and a new viewpoint"]

\* functions[reversal_type]; a missing key raises KeyError.
KeyError == "KeyError"

_determine_narrative_function(reversal_type) ==
  IF reversal_type \in DOMAIN functions THEN functions[reversal_type] ELSE KeyError

\* 32 * (3 t^2 - 2 t^3) for t = k/4, k = 0..4
SCurve32 == <<0, 5, 16, 27, 32>>

\* _generate_emotional_arc(start, end); variation[k] is the value drawn by
\* random.uniform(-0.2, 0.2) for the interior index k (1 <= k <= 3).
_generate_emotional_arc(start, end, variation) ==
  LET difference == end - start
  IN  [k \in 1..5 |->
        LET value == start + (difference * SCurve32[k]) \div 32
        IN  Clamp(IF 1 <= k - 1 /\ k - 1 <= 3 THEN value + variation[k - 1] ELSE value)]

\* The minimum-intensity adjustment of one loop iteration: the target after
\* lines 104-115.
AdjustTarget(target_state, current) ==
  IF Abs(target_state - current) < MIN_INTENSITY
    THEN Clamp(IF target_state > current THEN current + MIN_INTENSITY
               ELSE current - MIN_INTENSITY)
    ELSE target_state

----------------------------------------------------------------------------
(* Inputs of the optimizer                                                 *)

\* longest sequence drawn freely over TargetVals
MaxLen == 2

\* length of the alternating sequences, long enough for position >= 8
LongLen == 9

\* -1.5, -1.0, -0.7, -0.3, 0.0, 0.2, 0.5, 0.8, 0.9, 1.0, 1.5
TargetVals == {-480, -320, -224, -96, 0, 64, 160, 256, 288, 320, 480}

InRange(x) == -ONE <= x /\ x <= ONE

ShortSeqs == UNION {[1..n -> TargetVals] : n \in 0..MaxLen}

\* +-0.8 alternating, starting high or starting low
LongSeqs ==
  {[k \in 1..LongLen |-> IF k % 2 = 1 THEN a ELSE -a] : a \in {-256, 256}}

\* the sequence of test_reversal_sequence_optimization
ScenarioSeq == <<256, -96, 160, -224, 64>>

InputSeqs == ShortSeqs \cup LongSeqs \cup {ScenarioSeq}

\* the triples random.uniform may draw for the three interior arc points
JitterTriples == {<<-JITTER, -JITTER, -JITTER>>, <<JITTER, JITTER, JITTER>>, <<-17, 0, 41>>}

----------------------------------------------------------------------------
(* calculate_narrative_success_probability                                 *)

\* The thresholds 2.5, 0.8, 0.6, 0.7 the four inputs are divided by.
REVERSAL_FREQUENCY_TARGET == 800

INTENSITY_TARGET == 256

VARIANCE_TARGET == 192

DISTANCE_TARGET == 224

\* The least common multiple of the four thresholds: a quotient x / threshold
\* is the integer x * (RATIO_ONE / threshold) in units of 1 / RATIO_ONE.
RATIO_ONE == 134400

\* The dict `weights`, 0.3 / 0.25 / 0.25 / 0.2, in twentieths.
weights == [reversal |-> 6, intensity |-> 5, variance |-> 5, distance |-> 4]

\* 1.0 as a success score: 20 * RATIO_ONE
SCORE_ONE == 20 * RATIO_ONE

MetricKeys ==
  {"reversal_frequency", "average_reversal_intensity", "emotional_variance",
   "semantic_distance"}

\* metrics.get(key, 0)
Get(m, key) == IF key \in DOMAIN m THEN m[key] ELSE 0

\* a ratio without the cap min(1.0, ...)
XCappedRatioUncapped(x, threshold) == x * (RATIO_ONE \div threshold)

\* a ratio that penalises overshoot beyond the threshold
XCappedRatioPeaked(x, threshold) ==
  IF x <= threshold THEN x * (RATIO_ONE \div threshold)
  ELSE RATIO_ONE - (x - threshold) * (RATIO_ONE \div threshold)

\* min(1.0, x / threshold)
CappedRatio(x, threshold) == Min2(RATIO_ONE, x * (RATIO_ONE \div threshold))

calculate_narrative_success_probability(m) ==
  LET reversal_score == CappedRatio(Get(m, "reversal_frequency"), REVERSAL_FREQUENCY_TARGET)
      intensity_score == CappedRatio(Get(m, "average_reversal_intensity"), INTENSITY_TARGET)
      variance_score == CappedRatio(Get(m, "emotional_variance"), VARIANCE_TARGET)
      distance_score == CappedRatio(Get(m, "semantic_distance"), DISTANCE_TARGET)
  IN  reversal_score * weights["reversal"]
        + intensity_score * weights["intensity"]
        + variance_score * weights["variance"]
        + distance_score * weights["distance"]

\* Values an input may take: -1.0, 0.0, 0.3, its own threshold, 3.0
MetricVals(key) ==
  {-ONE, 0, DIRECTION_THRESHOLD, 3 * ONE} \cup
  {CASE key = "reversal_frequency" -> REVERSAL_FREQUENCY_TARGET
     [] key = "average_reversal_intensity" -> INTENSITY_TARGET
     [] key = "emotional_variance" -> VARIANCE_TARGET
     [] OTHER -> DISTANCE_TARGET}

MetricMaps ==
  UNION {{m \in [K -> UNION {MetricVals(k) : k \in MetricKeys}] :
            \A k \in K : m[k] \in MetricVals(k)} : K \in SUBSET MetricKeys}

ScoreIdle ==
  /\ metrics = <<>>
  /\ success_score = 0
  /\ score_pc = "idle"

\* one call of calculate_narrative_success_probability(metrics)
ScoreCall ==
  /\ \E m \in MetricMaps :
       /\ metrics' = m
       /\ success_score' = calculate_narrative_success_probability(m)
  /\ score_pc' = "returned"
  /\ UNCHANGED <<optVars, valVars, pipeVars, semVars, techVars, journeyVars, dsgVars>>

ScoreNext == ScoreCall

----------------------------------------------------------------------------
(* EmotionalValenceTracker                                                 *)

(* A valence is an exact fraction <<numerator, denominator>> in lowest     *)
(* terms with a positive denominator.                                      *)
RECURSIVE Gcd(_, _)
Gcd(a, b) == IF b = 0 THEN a ELSE Gcd(b, a % b)

Frac(n, d) ==
  LET g == Gcd(Abs(n), d)
  IN  IF n = 0 THEN <<0, 1>> ELSE <<n \div g, d \div g>>

\* q * (a / b), b > 0
FracMul(q, a, b) == Frac(q[1] * a, q[2] * b)

\* q + r
FracAdd(q, r) == Frac(q[1] * r[2] + r[1] * q[2], q[2] * r[2])

\* q - r
FracSub(q, r) == Frac(q[1] * r[2] - r[1] * q[2], q[2] * r[2])

RECURSIVE FracSum(_)
FracSum(seq) == IF seq = <<>> THEN <<0, 1>> ELSE FracAdd(Head(seq), FracSum(Tail(seq)))

FracLess(q, r) == q[1] * r[2] < r[1] * q[2]

FracLeq(q, r) == q[1] * r[2] <= r[1] * q[2]

FracAbs(q) == <<Abs(q[1]), q[2]>>

\* max(-1.0, min(1.0, q))
FracClamp(q) ==
  IF FracLess(<<1, 1>>, q) THEN <<1, 1>>
  ELSE IF FracLess(q, <<-1, 1>>) THEN <<-1, 1>>
  ELSE q

(* A scene text is represented by what the tracker reads of it: the        *)
(* numbers of occurrences text.count(word) summed per group of words.      *)
(* _preprocess_text only rewrites punctuation and whitespace, which no     *)
(* lexicon word contains, so it leaves these counts unchanged.  The        *)
(* diminisher "wazukani" contains the negator "zu": each of its             *)
(* occurrences counts in both groups.                                      *)

\* most occurrences of one lexicon band in a scene text
MaxHits == 1

\* most occurrences of intensifiers; 5 reach the cap 2.0
MaxIntensifiers == 6

\* most occurrences of negators other than inside "wazukani"
MaxNegators == 2

Texts ==
  [pos_weak : 0..MaxHits, pos_moderate : 0..MaxHits, pos_strong : 0..MaxHits,
   neg_weak : 0..MaxHits, neg_moderate : 0..MaxHits, neg_strong : 0..MaxHits,
   intensifiers : 0..MaxIntensifiers,
   diminishers_other : 0..1, wazukani : 0..1,
   negators_other : 0..MaxNegators]

\* the scene positions: both sides of the bounds `<= 3` and `>= 10`
Positions == {0, 3, 4, 9, 10, 12}

\* self.valence_vocabulary[...]["weight"], in tenths: 0.3, 0.6, 1.0
WEIGHT_WEAK == 3

WEIGHT_MODERATE == 6

WEIGHT_STRONG == 10

\* the quotient without the guard `if total_score > 0`: 0 / 0, no number,
\* for a text with no lexicon hit
XBaseValenceUnguarded(text) ==
  LET positive_score == text.pos_weak * WEIGHT_WEAK + text.pos_moderate * WEIGHT_MODERATE
                          + text.pos_strong * WEIGHT_STRONG
      negative_score == text.neg_weak * WEIGHT_WEAK + text.neg_moderate * WEIGHT_MODERATE
                          + text.neg_strong * WEIGHT_STRONG
      total_score == positive_score + negative_score
  IN  IF total_score > 0 THEN FracClamp(Frac(positive_score - negative_score, total_score))
      ELSE <<0, 0>>

_calculate_base_valence(text) ==
  LET positive_score == text.pos_weak * WEIGHT_WEAK + text.pos_moderate * WEIGHT_MODERATE
                          + text.pos_strong * WEIGHT_STRONG
      negative_score == text.neg_weak * WEIGHT_WEAK + text.neg_moderate * WEIGHT_MODERATE
                          + text.neg_strong * WEIGHT_STRONG
      total_score == positive_score + negative_score
      valence == IF total_score > 0 THEN Frac(positive_score - negative_score, total_score)
                 ELSE <<0, 1>>
  IN  FracClamp(valence)

\* modifiers that reverse the valence for any negator, not for an odd count
XModifiersNegateAny(text, base_valence) ==
  LET v1 == IF text.intensifiers > 0
              THEN FracMul(base_valence, Min2(10, 5 + text.intensifiers), 5)
              ELSE base_valence
      v2 == IF text.diminishers_other + text.wazukani > 0 THEN FracMul(v1, 1, 2) ELSE v1
      v3 == IF text.negators_other + text.wazukani > 0 THEN FracMul(v2, -4, 5) ELSE v2
  IN  FracClamp(v3)

_apply_context_modifiers(text, base_valence) ==
  LET intensifier_count == text.intensifiers
      v1 == IF intensifier_count > 0
              \* min(2.0, 1.0 + intensifier_count * 0.2) = min(10, 5 + count) / 5
              THEN FracMul(base_valence, Min2(10, 5 + intensifier_count), 5)
              ELSE base_valence
      diminisher_count == text.diminishers_other + text.wazukani
      \* max(0.2, multiplier) with multiplier 0.5
      v2 == IF diminisher_count > 0 THEN FracMul(v1, 1, 2) ELSE v1
      negator_count == text.negators_other + text.wazukani
      v3 == IF negator_count % 2 = 1 THEN FracMul(v2, -4, 5) ELSE v2
  IN  FracClamp(v3)

_adjust_for_narrative_position(valence, position) ==
  IF position <= 3 THEN FracMul(valence, 4, 5)
  ELSE IF position >= 10 THEN FracMul(valence, 6, 5)
  ELSE valence

\* the value analyze_scene_valence computes and returns
SceneValence(text, position) ==
  _adjust_for_narrative_position(
    _apply_context_modifiers(text, _calculate_base_valence(text)), position)

\* _describe_emotional_event: the prefix chosen; the text sample is omitted
_describe_emotional_event(valence) ==
  IF FracLess(<<4, 5>>, valence) THEN "strong_positive"
  ELSE IF FracLess(<<1, 2>>, valence) THEN "moderate_positive"
  ELSE IF FracLess(valence, <<-4, 5>>) THEN "strong_negative"
  ELSE IF FracLess(valence, <<-1, 2>>) THEN "moderate_negative"
  ELSE "neutral"

\* EmotionalValenceTracker.__init__
ValIdle ==
  /\ valence_history = <<>>
  /\ current_valence = <<0, 1>>
  /\ emotional_events = <<>>
  /\ val_args = <<>>
  /\ val_result = <<0, 1>>

\* events recorded from |valence| >= 0.7 on
XEventsOfInclusive(scene_position, position_adjusted) ==
  IF FracLeq(<<7, 10>>, FracAbs(position_adjusted))
    THEN <<[position |-> scene_position,
            valence |-> position_adjusted,
            intensity |-> FracAbs(position_adjusted),
            event_type |-> IF FracLess(<<4, 5>>, FracAbs(position_adjusted))
                             THEN "high_intensity" ELSE "moderate_intensity",
            description |-> _describe_emotional_event(position_adjusted)]>>
    ELSE <<>>

\* lines 145-155: the events a call appends, none unless |valence| > 0.7
EventsOf(scene_position, position_adjusted) ==
  IF FracLess(<<7, 10>>, FracAbs(position_adjusted))
    THEN <<[position |-> scene_position,
            valence |-> position_adjusted,
            intensity |-> FracAbs(position_adjusted),
            event_type |-> IF FracLess(<<4, 5>>, FracAbs(position_adjusted))
                             THEN "high_intensity" ELSE "moderate_intensity",
            description |-> _describe_emotional_event(position_adjusted)]>>
    ELSE <<>>

\* a call that returns the mean of the valence of the scene and the valence
\* of the scene before it, when there is one
XAnalyzeSceneValenceSmoothed(scene_text, scene_position) ==
  LET scene_valence == SceneValence(scene_text, scene_position)
      position_adjusted ==
        IF valence_history = <<>> THEN scene_valence
        ELSE FracMul(FracAdd(scene_valence, current_valence), 1, 2)
  IN  /\ valence_history' = Append(valence_history, position_adjusted)
      /\ current_valence' = position_adjusted
      /\ emotional_events' = emotional_events \o EventsOf(scene_position, position_adjusted)
      /\ val_args' = <<scene_text, scene_position>>
      /\ val_result' = position_adjusted

\* one call analyze_scene_valence(scene_text, scene_position)
AnalyzeSceneValence(scene_text, scene_position) ==
  LET position_adjusted == SceneValence(scene_text, scene_position)
  IN  /\ valence_history' = Append(valence_history, position_adjusted)
      /\ current_valence' = position_adjusted
      /\ emotional_events' = emotional_events \o EventsOf(scene_position, position_adjusted)
      /\ val_args' = <<scene_text, scene_position>>
      /\ val_result' = position_adjusted

\* a first call on a freshly constructed tracker, as in test_valence_analysis
FirstCall ==
  /\ valence_history = <<>>
  /\ \E scene_text \in Texts, scene_position \in Positions :
       AnalyzeSceneValence(scene_text, scene_position)
  /\ UNCHANGED <<optVars, scoreVars, pipeVars, semVars, techVars, journeyVars, dsgVars>>

ValNext == FirstCall

----------------------------------------------------------------------------
(* ComputationallyOptimizedFantasyEngine: the graph of seven nodes run by  *)
(* create_optimized_fantasy_novel, called from main                        *)

\* most plot events the foundation call returns (the prompt asks for 12)
MaxEvents == 12

\* the events of a long plot: the first number that gives ten chapters
LongPlot == 28

\* a text without any lexicon or modifier word
PlainText ==
  [pos_weak |-> 0, pos_moderate |-> 0, pos_strong |-> 0,
   neg_weak |-> 0, neg_moderate |-> 0, neg_strong |-> 0,
   intensifiers |-> 0, diminishers_other |-> 0, wazukani |-> 0,
   negators_other |-> 0]

\* a chapter text: what the valence tracker reads of it (counts) and what
\* the pacing controller reads of it (the domains of which it holds a
\* concept)
ChapterText(counts, domains) ==
  [field \in DOMAIN counts \cup {"domains"} |->
     IF field = "domains" THEN domains ELSE counts[field]]

\* the chapter texts str(response.content) the model may return: a text
\* without any word either component looks for; one strong positive word
\* and concepts of three domains; the strong negative word that is also a
\* concept of the emotional domain
LlmTexts ==
  {ChapterText(PlainText, {}),
   ChapterText([PlainText EXCEPT !.pos_strong = 1], {"physical", "political", "mythological"}),
   ChapterText([PlainText EXCEPT !.neg_strong = 1], {"emotional"})}

\* the chapter texts the model may return for a plot of n events: the ten
\* chapters of a long plot are drawn from the two texts with a valence
LlmTextsFor(n) ==
  IF n <= MaxEvents THEN LlmTexts
  ELSE {text \in LlmTexts : text.pos_strong + text.neg_strong > 0}

\* A key of the graph state that no node has set yet is the empty sequence,
\* a key that was set is the one-element sequence of its value.
Unset == <<>>

Set(value) == <<value>>

\* what main() returned: nothing yet, None, or the result dict
NotReturned == [returned |-> FALSE, value |-> <<>>]

ReturnedNone == [returned |-> TRUE, value |-> <<>>]

Returned(result) == [returned |-> TRUE, value |-> <<result>>]

\* the decimal digits of n >= 0, most significant first
RECURSIVE Digits(_)
Digits(n) == IF n < 10 THEN <<n>> ELSE Append(Digits(n \div 10), n % 10)

\* "chapter_a" < "chapter_b" as Python compares the two strings
KeyLess(a, b) ==
  LET da == Digits(a)
      db == Digits(b)
      common == Min2(Len(da), Len(db))
      diffs == {j \in 1..common : da[j] # db[j]}
  IN  IF diffs = {} THEN Len(da) < Len(db)
      ELSE LET first == CHOOSE j \in diffs : \A l \in diffs : j <= l
           IN  da[first] < db[first]

\* sorted(manuscript.items()): the chapter numbers in the order of their keys
RECURSIVE SortedChapters(_)
SortedChapters(chapters) ==
  IF chapters = {} THEN <<>>
  ELSE LET least == CHOOSE c \in chapters : \A d \in chapters \ {c} : KeyLess(c, d)
       IN  <<least>> \o SortedChapters(chapters \ {least})

RECURSIVE ConcatAll(_)
ConcatAll(seqs) ==
  IF seqs = <<>> THEN <<>> ELSE Head(seqs) \o ConcatAll(Tail(seqs))

----------------------------------------------------------------------------
(* SemanticPacingController                                                *)

(* A coordinate of a SemanticPosition is an integer number of tenths and a *)
(* distance an integer number of thousandths, the square root rounded      *)
(* down.  A text is represented by what the controller reads of it: the    *)
(* set of domains of which it contains a concept.                          *)

\* 1.0 as a coordinate
POS_ONE == 10

\* 1.0 as a distance
DIST_ONE == 1000

\* self.semantic_domains[domain]["weights"], in tenths
semantic_domains ==
  [physical |-> [action |-> 8, description |-> 6, dialogue |-> 2],
   emotional |-> [dialogue |-> 9, internal |-> 8, action |-> 4],
   philosophical |-> [internal |-> 9, dialogue |-> 7, symbolism |-> 8],
   political |-> [dialogue |-> 8, action |-> 7, description |-> 5],
   spiritual |-> [symbolism |-> 9, description |-> 7, dialogue |-> 6],
   mythological |-> [description |-> 8, action |-> 7, symbolism |-> 9]]

DomainNames == DOMAIN semantic_domains

\* domain_info["weights"].get(event_type, 0.5)
DEFAULT_WEIGHT == 5

\* the largest r with r * r <= n, lo * lo <= n < hi * hi
IsqrtIn(n, lo, hi) ==
  CHOOSE r \in lo..(hi - 1) : r * r <= n /\ n < (r + 1) * (r + 1)

\* math.sqrt of n hundredths, in thousandths: the root of 10000 * n, sought
\* between 100 * r and 100 * (r + 1) for the integer root r of n
Sqrt(n) ==
  LET r == IsqrtIn(n, 0, n + 1)
  IN  IsqrtIn(n * 10000, 100 * r, 100 * (r + 1))

\* a distance whose first term lacks its square; math.sqrt raises on a
\* negative sum (-1 stands for no distance)
XDistanceFirstTermLinear(self, other) ==
  LET sum == (self.physical - other.physical) * POS_ONE
               + (self.emotional - other.emotional) * (self.emotional - other.emotional)
               + (self.philosophical - other.philosophical)
                   * (self.philosophical - other.philosophical)
               + (self.political - other.political) * (self.political - other.political)
               + (self.spiritual - other.spiritual) * (self.spiritual - other.spiritual)
               + (self.mythological - other.mythological)
                   * (self.mythological - other.mythological)
  IN  IF sum < 0 THEN -1 ELSE Sqrt(sum)

\* SemanticPosition.distance_to
distance_to(self, other) ==
  Sqrt((self.physical - other.physical) * (self.physical - other.physical)
       + (self.emotional - other.emotional) * (self.emotional - other.emotional)
       + (self.philosophical - other.philosophical)
           * (self.philosophical - other.philosophical)
       + (self.political - other.political) * (self.political - other.political)
       + (self.spiritual - other.spiritual) * (self.spiritual - other.spiritual)
       + (self.mythological - other.mythological)
           * (self.mythological - other.mythological))

\* _calculate_semantic_position: every concept of a domain has the weight of
\* the event type, so score / concept_count is that weight
_calculate_semantic_position(event_text, event_type) ==
  [domain \in DomainNames |->
     IF domain \in event_text
       THEN LET weight == IF event_type \in DOMAIN semantic_domains[domain]
                            THEN semantic_domains[domain][event_type]
                            ELSE DEFAULT_WEIGHT
                normalized_score == Min2(POS_ONE, weight)
            \* min_val + normalized_score * (max_val - min_val), range (-1.0, 1.0)
            IN  -POS_ONE + normalized_score * 2
       ELSE 0]

\* sum(positions[i].distance_to(positions[i + 1]) for i in range(len - 1))
RECURSIVE SumConsecutive(_)
SumConsecutive(positions) ==
  IF Len(positions) <= 1 THEN 0
  ELSE distance_to(positions[1], positions[2]) + SumConsecutive(Tail(positions))

\* the positions of the chapters in the order of sorted(manuscript.keys())
ChapterPositions(manuscript) ==
  LET sorted_chapters == SortedChapters(DOMAIN manuscript)
  IN  [j \in 1..Len(sorted_chapters) |->
         _calculate_semantic_position(manuscript[sorted_chapters[j]], "action")]

\* the sum of the distances returned as it is, not normalised
XTotalDistanceRaw(manuscript) ==
  IF DOMAIN manuscript = {} THEN 0
  ELSE SumConsecutive(ChapterPositions(manuscript))

\* calculate_total_semantic_distance, in thousandths
calculate_total_semantic_distance(manuscript) ==
  IF DOMAIN manuscript = {} THEN 0
  ELSE LET positions == ChapterPositions(manuscript)
           total_distance == SumConsecutive(positions)
           max_possible_distance == Len(positions) * 2 * DIST_ONE
       IN  Min2(DIST_ONE,
                (total_distance * DIST_ONE) \div Max2(DIST_ONE, max_possible_distance))

(* design_nonlinear_structure.  An event of a sequence is a record of its   *)
(* position, its timestamp and whether it is a bridge.                     *)

\* _calculate_distance_score: max(0.0, 1.0 - |distance - 0.5| * 2), thousandths
_calculate_distance_score(distance) ==
  Max2(0, DIST_ONE - Abs(distance - (DIST_ONE \div 2)) * 2)

\* the bounds of random.uniform(0.3, 0.7) in _calculate_temporal_score
TEMPORAL_SCORE_MIN == 300

TEMPORAL_SCORE_MAX == 700

\* _select_next_event: the indices of the candidates the loop may return.
\* total_score is distance_score * 0.7 + temporal_score * 0.3 with a random
\* temporal_score; a candidate is returned when its total exceeds the total
\* of every earlier one and is not exceeded by a later one.
_select_next_event(current_position, candidates) ==
  LET best(j) == 7 * _calculate_distance_score(
                         distance_to(current_position, candidates[j].position))
                   + 3 * TEMPORAL_SCORE_MAX
      worst(j) == 7 * _calculate_distance_score(
                          distance_to(current_position, candidates[j].position))
                    + 3 * TEMPORAL_SCORE_MIN
  IN  {j \in 1..Len(candidates) :
         /\ \A o \in 1..(j - 1) : best(j) > worst(o)
         /\ \A o \in (j + 1)..Len(candidates) : best(j) >= worst(o)}

\* a bridge placed at the start position
XBridgeAtStart(start_pos, end_pos) ==
  [position |-> start_pos, timestamp |-> -1, is_bridge |-> TRUE]

\* _create_bridge_event: the event at the component-wise midpoint
_create_bridge_event(start_pos, end_pos) ==
  [position |-> [domain \in DomainNames |-> (start_pos[domain] + end_pos[domain]) \div 2],
   timestamp |-> -1,
   is_bridge |-> TRUE]

\* list.remove of the element at index j
RemoveAt(list, j) == SubSeq(list, 1, j - 1) \o SubSeq(list, j + 1, Len(list))

\* list.remove(event): the first element equal to event is removed
Remove(list, event) ==
  RemoveAt(list, CHOOSE j \in 1..Len(list) :
                   list[j] = event /\ \A o \in 1..(j - 1) : list[o] # event)

\* the distance 0.7 beyond which a bridge is inserted
BRIDGE_DISTANCE == 700

\* the while loop of _optimize_semantic_journey: the sequences it may build
RECURSIVE JourneysFrom(_, _, _)
JourneysFrom(current_position, remaining_events, optimized_sequence) ==
  IF remaining_events = <<>> THEN {optimized_sequence}
  ELSE UNION
         {LET next_event == remaining_events[j]
              distance == distance_to(current_position, next_event.position)
              bridged == IF distance > BRIDGE_DISTANCE
                           THEN Append(optimized_sequence,
                                       _create_bridge_event(current_position,
                                                            next_event.position))
                           ELSE optimized_sequence
          IN  JourneysFrom(next_event.position, Remove(remaining_events, next_event),
                           Append(bridged, next_event))
          : j \in _select_next_event(current_position, remaining_events)}

\* _optimize_semantic_journey: starts from the first event of least timestamp
_optimize_semantic_journey(event_positions) ==
  IF event_positions = <<>> THEN {<<>>}
  ELSE LET first == CHOOSE j \in 1..Len(event_positions) :
                      /\ \A o \in 1..Len(event_positions) :
                           event_positions[j].timestamp <= event_positions[o].timestamp
                      /\ \A o \in 1..(j - 1) :
                           event_positions[o].timestamp > event_positions[j].timestamp
           current_event == event_positions[first]
       IN  JourneysFrom(current_event.position, RemoveAt(event_positions, first),
                        <<current_event>>)

\* _design_temporal_complexity and _weave_perspectives: chapters of three
\* events; the one parallel timeline gives every second chapter one shift
_weave_perspectives(main_sequence) ==
  [c \in 1..((Len(main_sequence) + 2) \div 3) |->
     [chapter_number |-> c,
      events |-> SubSeq(main_sequence, 3 * (c - 1) + 1, Min2(3 * c, Len(main_sequence))),
      perspective_shifts |-> IF (c - 1) % 2 = 1 THEN 1 ELSE 0]]

\* the inner loop of _calculate_semantic_trajectory over one chapter's events
RECURSIVE WalkEvents(_, _)
WalkEvents(events, acc) ==
  IF events = <<>> THEN acc
  ELSE LET position == Head(events).position
           distance == IF acc.prev_position = Unset THEN 0
                       ELSE distance_to(acc.prev_position[1], position)
       IN  WalkEvents(Tail(events),
                      [positions |-> Append(acc.positions, position),
                       total_distance |-> acc.total_distance + distance,
                       prev_position |-> Set(position)])

\* an outer loop that forgets prev_position at each chapter
RECURSIVE XWalkChaptersPerChapter(_, _)
XWalkChaptersPerChapter(chapters, acc) ==
  IF chapters = <<>> THEN acc
  ELSE XWalkChaptersPerChapter(
         Tail(chapters),
         WalkEvents(Head(chapters).events, [acc EXCEPT !.prev_position = Unset]))

\* the outer loop: prev_position is carried from one chapter to the next
RECURSIVE WalkChapters(_, _)
WalkChapters(chapters, acc) ==
  IF chapters = <<>> THEN acc
  ELSE WalkChapters(Tail(chapters), WalkEvents(Head(chapters).events, acc))

\* _calculate_semantic_trajectory: its positions and its total_distance
_calculate_semantic_trajectory(chapters) ==
  LET walked == WalkChapters(chapters,
                             [positions |-> <<>>, total_distance |-> 0,
                              prev_position |-> Unset])
  IN  [positions |-> walked.positions, total_distance |-> walked.total_distance]

\* _calculate_complexity_score: len(...) / len(chapters) raises
\* ZeroDivisionError when there is no chapter.  Only whether the call raises
\* is represented, not the score.
_calculate_complexity_score(chapters) == [raised |-> Len(chapters) = 0]

\* design_nonlinear_structure: the results it may return for a plot's
\* events.  Of the returned dict the structure's chapters, total_distance
\* and the chapters of reading_path are represented; an exception leaves no
\* result.
design_nonlinear_structure(chronological_events) ==
  LET event_positions ==
        [j \in 1..Len(chronological_events) |->
           [position |-> _calculate_semantic_position(chronological_events[j].description,
                                                      chronological_events[j].type),
            timestamp |-> chronological_events[j].timestamp,
            is_bridge |-> FALSE]]
  IN  {LET multi_pov_structure == _weave_perspectives(optimized_sequence)
           semantic_trajectory == _calculate_semantic_trajectory(multi_pov_structure)
           complexity_score == _calculate_complexity_score(multi_pov_structure)
       IN  IF complexity_score.raised
             THEN [exception |-> "ZeroDivisionError", structure |-> Unset,
                   total_distance |-> Unset, reading_path |-> Unset]
             ELSE [exception |-> "none", structure |-> Set(multi_pov_structure),
                   total_distance |-> Set(semantic_trajectory.total_distance),
                   reading_path |-> Set([c \in 1..Len(multi_pov_structure) |->
                                           multi_pov_structure[c].chapter_number])]
       : optimized_sequence \in _optimize_semantic_journey(event_positions)}

(* The calls made on a SemanticPacingController                            *)

\* positions of texts as action and as dialogue events, and the two corners
\* of the space
DistPositions ==
  {_calculate_semantic_position(event_text, event_type) :
     event_text \in SUBSET DomainNames, event_type \in {"action", "dialogue"}}
    \cup {[domain \in DomainNames |-> POS_ONE], [domain \in DomainNames |-> -POS_ONE]}

\* most chapters of a manuscript
MaxChapters == 3

\* chapter texts: no concept; concepts of three domains; one of one domain
ChapterTexts == {{}, {"physical", "political", "mythological"}, {"emotional"}}

Manuscripts == UNION {[1..n -> ChapterTexts] : n \in 0..MaxChapters}

\* most events of a sequence given to _weave_perspectives
MaxTraj == 4

TrajEvents ==
  {[position |-> _calculate_semantic_position(event_text, "action"),
    timestamp |-> 0, is_bridge |-> FALSE] : event_text \in ChapterTexts}

TrajSeqs == UNION {[1..n -> TrajEvents] : n \in 0..MaxTraj}

\* most events of a plot
MaxPlot == 3

\* plot events: at the origin; far from the origin; a dialogue
PlotEvents ==
  {[description |-> {}, type |-> "action", timestamp |-> 0],
   [description |-> {"physical", "political", "mythological"}, type |-> "action",
    timestamp |-> 1],
   [description |-> {"emotional", "philosophical"}, type |-> "dialogue",
    timestamp |-> 2]}

Plots == UNION {[1..n -> PlotEvents] : n \in 0..MaxPlot}

\* SemanticPacingController.__init__: no call made yet
SemIdle ==
  /\ sem_pc = "idle"
  /\ sem_args = <<>>
  /\ sem_result = 0

\* one call self.distance_to(other)
DistanceCall ==
  /\ sem_pc = "idle"
  /\ \E self \in DistPositions, other \in DistPositions :
       /\ sem_args' = <<self, other>>
       /\ sem_result' = distance_to(self, other)
  /\ sem_pc' = "distance_to"
  /\ UNCHANGED <<optVars, scoreVars, valVars, pipeVars, techVars, journeyVars, dsgVars>>

\* one call calculate_total_semantic_distance(manuscript)
TotalDistanceCall ==
  /\ sem_pc = "idle"
  /\ \E manuscript \in Manuscripts :
       /\ sem_args' = <<manuscript>>
       /\ sem_result' = calculate_total_semantic_distance(manuscript)
  /\ sem_pc' = "calculate_total_semantic_distance"
  /\ UNCHANGED <<optVars, scoreVars, valVars, pipeVars, techVars, journeyVars, dsgVars>>

\* one call _calculate_semantic_trajectory on the chapters woven of a sequence
TrajectoryCall ==
  /\ sem_pc = "idle"
  /\ \E main_sequence \in TrajSeqs :
       /\ sem_args' = <<_weave_perspectives(main_sequence)>>
       /\ sem_result' = _calculate_semantic_trajectory(_weave_perspectives(main_sequence))
  /\ sem_pc' = "_calculate_semantic_trajectory"
  /\ UNCHANGED <<optVars, scoreVars, valVars, pipeVars, techVars, journeyVars, dsgVars>>

\* one call design_nonlinear_structure({"events": events})
DesignCall ==
  /\ sem_pc = "idle"
  /\ \E chronological_events \in Plots :
       /\ sem_args' = <<chronological_events>>
       /\ \E result \in design_nonlinear_structure(chronological_events) :
            sem_result' = result
  /\ sem_pc' = "design_nonlinear_structure"
  /\ UNCHANGED <<optVars, scoreVars, valVars, pipeVars, techVars, journeyVars, dsgVars>>

SemNext ==
  \/ DistanceCall
  \/ TotalDistanceCall
  \/ TrajectoryCall
  \/ DesignCall

(* _optimize_semantic_journey, one step per iteration of its while loop    *)

\* most events of a list given to _optimize_semantic_journey
MaxJourney == 3

\* the event of a text at a timestamp
JourneyEvent(event_text, timestamp) ==
  [position |-> _calculate_semantic_position(event_text, "action"),
   timestamp |-> timestamp, is_bridge |-> FALSE]

\* events at the origin and far from it at the same timestamp, and later
\* events near the origin and far from it
JourneyEvents ==
  {JourneyEvent({}, 0),
   JourneyEvent({"physical", "political", "mythological"}, 0),
   JourneyEvent({"emotional"}, 1),
   JourneyEvent({"physical", "political", "mythological"}, 1)}

JourneyInputs == UNION {[1..n -> JourneyEvents] : n \in 0..MaxJourney}

\* the last event of least timestamp, where min returns the first
XEarliestIndexLast(events) ==
  CHOOSE j \in 1..Len(events) :
    /\ \A o \in 1..Len(events) : events[j].timestamp <= events[o].timestamp
    /\ \A o \in (j + 1)..Len(events) : events[o].timestamp > events[j].timestamp

\* min(remaining_events, key=lambda e: e["timestamp"]): the index of the
\* first event of least timestamp
EarliestIndex(events) ==
  CHOOSE j \in 1..Len(events) :
    /\ \A o \in 1..Len(events) : events[j].timestamp <= events[o].timestamp
    /\ \A o \in 1..(j - 1) : events[o].timestamp > events[j].timestamp

\* no call of _optimize_semantic_journey made yet
JourneyIdle ==
  /\ journey_pc = "idle"
  /\ journey_input = <<>>
  /\ journey_remaining = <<>>
  /\ journey_sequence = <<>>
  /\ journey_position = Unset
  /\ journey_steps = 0

\* lines 228-239: the call; an empty list is returned at once, otherwise
\* the earliest event opens the sequence
JourneyStart ==
  /\ journey_pc = "idle"
  /\ \E event_positions \in JourneyInputs :
       /\ journey_input' = event_positions
       /\ IF event_positions = <<>>
            THEN /\ journey_pc' = "returned"
                 /\ UNCHANGED <<journey_remaining, journey_sequence, journey_position>>
            ELSE LET current_event == event_positions[EarliestIndex(event_positions)]
                 IN  /\ journey_sequence' = <<current_event>>
                     /\ journey_remaining' = Remove(event_positions, current_event)
                     /\ journey_position' = Set(current_event.position)
                     /\ journey_pc' = "loop"
  /\ UNCHANGED journey_steps
  /\ UNCHANGED <<optVars, scoreVars, valVars, pipeVars, semVars, techVars, dsgVars>>

\* lines 241-256: one iteration of `while remaining_events`
JourneySelect ==
  /\ journey_pc = "loop"
  /\ journey_remaining # <<>>
  /\ \E j \in _select_next_event(journey_position[1], journey_remaining) :
       LET next_event == journey_remaining[j]
           distance == distance_to(journey_position[1], next_event.position)
           bridged == IF distance > BRIDGE_DISTANCE
                        THEN Append(journey_sequence,
                                    _create_bridge_event(journey_position[1],
                                                         next_event.position))
                        ELSE journey_sequence
       IN  /\ journey_sequence' = Append(bridged, next_event)
           /\ journey_remaining' = Remove(journey_remaining, next_event)
           /\ journey_position' = Set(next_event.position)
  /\ journey_steps' = journey_steps + 1
  /\ UNCHANGED <<journey_pc, journey_input>>
  /\ UNCHANGED <<optVars, scoreVars, valVars, pipeVars, semVars, techVars, dsgVars>>

\* line 258: `return optimized_sequence` once no event remains
JourneyReturn ==
  /\ journey_pc = "loop"
  /\ journey_remaining = <<>>
  /\ journey_pc' = "returned"
  /\ UNCHANGED <<journey_input, journey_remaining, journey_sequence, journey_position,
                 journey_steps>>
  /\ UNCHANGED <<optVars, scoreVars, valVars, pipeVars, semVars, techVars, dsgVars>>

JourneyNext ==
  \/ JourneyStart
  \/ JourneySelect
  \/ JourneyReturn

----------------------------------------------------------------------------
(* TemporalStructureDesigner._select_optimal_techniques                    *)

\* the values of the enum TemporalTechnique
TemporalTechnique ==
  {"in_medias_res", "frame_narrative", "parallel_timelines", "reverse_chronology",
   "time_loops", "prophetic_visions", "nested_flashbacks", "convergent_timelines"}

\* the members of a list
Members(list) == {list[j] : j \in 1..Len(list)}

\* lines 301-307: the loop over genre_indicators
RECURSIVE AddGenres(_, _)
AddGenres(genre_indicators, selected) ==
  IF genre_indicators = <<>> THEN selected
  ELSE LET genre == Head(genre_indicators)
           next == IF genre = "fantasy" /\ "prophetic_visions" \notin Members(selected)
                     THEN Append(selected, "prophetic_visions")
                   ELSE IF genre = "mystery" /\ "reverse_chronology" \notin Members(selected)
                     THEN Append(selected, "reverse_chronology")
                   ELSE selected
       IN  AddGenres(Tail(genre_indicators), next)

\* lines 285-312 up to the return: the list before it is cut; plot_complexity
\* is in hundredths
SelectedBeforeCut(analysis) ==
  LET complexity == analysis.plot_complexity
      revelation_count == analysis.revelation_points
      basic == IF complexity > 70 THEN <<"parallel_timelines", "convergent_timelines">>
               ELSE IF complexity > 50 THEN <<"in_medias_res", "nested_flashbacks">>
               ELSE <<"in_medias_res">>
      with_genres == AddGenres(analysis.genre_indicators, basic)
  IN  IF revelation_count > 3 /\ "nested_flashbacks" \notin Members(with_genres)
        THEN Append(with_genres, "nested_flashbacks")
        ELSE with_genres

\* a selection returned without the cut [:3]
XSelectUncut(analysis) == SelectedBeforeCut(analysis)

\* a selection that frames an epic
XSelectFrameForEpic(analysis) ==
  LET framed == IF "epic" \in Members(analysis.genre_indicators)
                  THEN <<"frame_narrative">> \o SelectedBeforeCut(analysis)
                  ELSE SelectedBeforeCut(analysis)
  IN  SubSeq(framed, 1, Min2(3, Len(framed)))

\* _select_optimal_techniques: selected_techniques[:3]
_select_optimal_techniques(analysis) ==
  SubSeq(SelectedBeforeCut(analysis), 1, Min2(3, Len(SelectedBeforeCut(analysis))))

\* values of plot_complexity on both sides of the bounds 0.5 and 0.7
ComplexityVals == {0, 50, 51, 70, 71, 100}

\* the lists _identify_genre_indicators returns
GenreLists ==
  {<<"general">>, <<"fantasy">>, <<"epic">>, <<"mystery">>, <<"fantasy", "epic">>,
   <<"fantasy", "mystery">>, <<"epic", "mystery">>, <<"fantasy", "epic", "mystery">>}

\* most revelation points of a plot; more than 3 add nested_flashbacks
MaxRevelations == 4

PlotAnalyses ==
  [plot_complexity : ComplexityVals, genre_indicators : GenreLists,
   revelation_points : 0..MaxRevelations]

TechIdle ==
  /\ tech_pc = "idle"
  /\ plot_analysis = <<>>
  /\ selected_techniques = <<>>

\* one call _select_optimal_techniques(plot_analysis)
SelectCall ==
  /\ tech_pc = "idle"
  /\ \E analysis \in PlotAnalyses :
       /\ plot_analysis' = analysis
       /\ selected_techniques' = _select_optimal_techniques(analysis)
  /\ tech_pc' = "returned"
  /\ UNCHANGED <<optVars, scoreVars, valVars, pipeVars, semVars, journeyVars, dsgVars>>

TechNext == SelectCall

----------------------------------------------------------------------------
(* TemporalStructureDesigner.create_temporal_complexity                    *)

(* A plot is represented by what the designer reads of it: its events, the *)
(* number of its characters and which of the words "magic", "war" and      *)
(* "mystery" str(linear_plot).lower() contains.  Of an event its type, the *)
(* number of its dependencies, its tags, its importance and its            *)
(* emotional_impact (both in tenths) are represented.                      *)

\* the cardinality of {event.get("type", "unknown") for event in events}
EventTypes(events) == {events[j].type : j \in 1..Len(events)}

RECURSIVE SumOver(_, _)
SumOver(seq, field) ==
  IF seq = <<>> THEN 0 ELSE Head(seq)[field] + SumOver(Tail(seq), field)

\* _assess_plot_complexity: raises ZeroDivisionError on no event (-1 here),
\* else (type_diversity + dependency_complexity + mystery_factor) / 3.0 in
\* hundredths, rounded up: the value is only compared by `> 0.7` and
\* `> 0.5`, and x > k / 100 exactly when the rounded value exceeds k.
_assess_plot_complexity(events) ==
  IF Len(events) = 0 THEN -1
  ELSE LET n == Len(events)
           types == Cardinality(EventTypes(events))
           dependencies == SumOver(events, "dependencies")
           secrets == Cardinality({j \in 1..n : "secret" \in events[j].tags})
           \* max(1, len(events) * 0.3), in tenths
           floor == Max2(10, 3 * n)
           \* the three terms over the common denominator 10 * n * floor
           type_diversity == types * n * floor
           dependency_complexity == 10 * floor * Min2(n, dependencies)
           mystery_factor == 10 * n * Min2(floor, 10 * secrets)
           numerator == 100 * (type_diversity + dependency_complexity + mystery_factor)
           denominator == 3 * 10 * n * floor
       IN  (numerator + denominator - 1) \div denominator

\* _identify_revelation_points: the positions of the revelations
_identify_revelation_points(events) ==
  SelectSeq([j \in 1..Len(events) |-> j - 1],
            LAMBDA i : \/ events[i + 1].type = "revelation"
                       \/ "revelation" \in events[i + 1].tags
                       \/ events[i + 1].importance > 7)

\* _identify_genre_indicators
_identify_genre_indicators(plot) ==
  LET indicators ==
        (IF "magic" \in plot.words THEN <<"fantasy">> ELSE <<>>)
          \o (IF "war" \in plot.words THEN <<"epic">> ELSE <<>>)
          \o (IF "mystery" \in plot.words THEN <<"mystery">> ELSE <<>>)
  IN  IF indicators # <<>> THEN indicators ELSE <<"general">>

\* _analyze_linear_plot: the entries _select_optimal_techniques reads
_analyze_linear_plot(plot) ==
  [plot_complexity |-> _assess_plot_complexity(plot.events),
   revelation_points |-> Len(_identify_revelation_points(plot.events)),
   genre_indicators |-> _identify_genre_indicators(plot)]

\* min(dramatic_events, key=lambda x: abs(x - mid_point)): the first of the
\* nearest
NearestTo(dramatic_events, mid_point) ==
  dramatic_events[
    CHOOSE j \in 1..Len(dramatic_events) :
      /\ \A o \in 1..Len(dramatic_events) :
           Abs(dramatic_events[j] - mid_point) <= Abs(dramatic_events[o] - mid_point)
      /\ \A o \in 1..(j - 1) :
           Abs(dramatic_events[o] - mid_point) > Abs(dramatic_events[j] - mid_point)]

\* _determine_optimal_starting_point: technique and starting_event_index;
\* events[0] of no event raises IndexError
_determine_optimal_starting_point(events, techniques) ==
  IF "in_medias_res" \in Members(techniques)
    THEN LET mid_point == Len(events) \div 2
             dramatic_events ==
               SelectSeq([j \in 1..Len(events) |-> j - 1],
                         LAMBDA i : events[i + 1].emotional_impact > 5)
             starting_index == IF dramatic_events # <<>>
                                 THEN NearestTo(dramatic_events, mid_point)
                                 ELSE mid_point
         IN  IF starting_index >= Len(events) /\ Len(events) = 0
               THEN [exception |-> "IndexError"]
               ELSE [exception |-> "none", technique |-> "in_medias_res",
                     starting_event_index |-> starting_index]
  ELSE IF "frame_narrative" \in Members(techniques)
    THEN [exception |-> "none", technique |-> "frame_narrative",
          starting_event_index |-> Len(events) - 1]
  ELSE [exception |-> "none", technique |-> "chronological", starting_event_index |-> 0]

\* _design_multiple_timelines for n events; of a timeline's events their
\* chronological_order is represented
_design_multiple_timelines(n, character_count, techniques) ==
  <<[timeline_id |-> "main", intersection_points |-> <<>>,
     events |-> [j \in 1..n |-> j - 1]]>>
    \o (IF "parallel_timelines" \in Members(techniques)
          THEN <<[timeline_id |-> "antagonist",
                  intersection_points |-> <<n \div 3, (2 * n) \div 3>>,
                  events |-> [j \in 1..n |-> j - 1] \o <<n \div 3, (2 * n) \div 3>>]>>
                 \o (IF character_count > 2
                       THEN <<[timeline_id |-> "supporter",
                               intersection_points |-> <<n \div 2>>,
                               events |-> <<n \div 4, n \div 2, (3 * n) \div 4>>]>>
                       ELSE <<>>)
          ELSE <<>>)

\* _design_flashback_structure: the trigger_position of each primary
\* flashback (its target_past_position is drawn at random and left out) and
\* the number of nested flashbacks
_design_flashback_structure(events) ==
  LET revelation_points == _identify_revelation_points(events)
  IN  [primary_flashbacks |-> revelation_points,
       nested_flashbacks |-> IF Len(revelation_points) > 2 THEN 1 ELSE 0]

\* _place_prophetic_elements: the position of each prophecy
_place_prophetic_elements(n, techniques) ==
  IF "prophetic_visions" \in Members(techniques) THEN <<1, n \div 2>> ELSE <<>>

\* _design_convergence_points
_design_convergence_points(timelines) ==
  IF Len(timelines) > 1 THEN <<"middle", "climax">> ELSE <<>>

\* the chapter built for the events from index i on; a shift wants i itself
\* among the intersection points
ChapterAt(i, total_events, timelines, flashback_structure, prophetic_elements) ==
  LET end == Min2(i + 3, total_events)
      others == Tail(timelines)
  IN  [chapter_number |-> (i \div 3) + 1,
       events_range |-> <<i, end>>,
       perspective_shifts |->
         [k \in 1..Len(SelectSeq(others, LAMBDA t : i \in Members(t.intersection_points))) |->
            LET timeline ==
                  SelectSeq(others, LAMBDA t : i \in Members(t.intersection_points))[k]
            IN  [timeline_id |-> timeline.timeline_id,
                 events |-> SelectSeq(timeline.events, LAMBDA o : o = i)]],
       flashbacks |-> SelectSeq(flashback_structure.primary_flashbacks,
                                LAMBDA position : i <= position /\ position < end),
       prophetic_elements |-> SelectSeq(prophetic_elements,
                                        LAMBDA position : i <= position /\ position < end)]

\* _optimize_reading_path: one chapter per three events of the main timeline
_optimize_reading_path(timelines, flashback_structure, prophetic_elements) ==
  LET total_events == Len(timelines[1].events)
  IN  [c \in 1..((total_events + 2) \div 3) |->
         ChapterAt(3 * (c - 1), total_events, timelines, flashback_structure,
                   prophetic_elements)]

\* create_temporal_complexity: the dict it returns, or the exception that
\* leaves it.  complexity_score and estimated_reader_engagement, two table
\* look-ups over the one to three techniques, are left out.
create_temporal_complexity(plot) ==
  LET events == plot.events
      analysis == _analyze_linear_plot(plot)
      techniques == _select_optimal_techniques(analysis)
      starting_point == _determine_optimal_starting_point(events, techniques)
      timelines == _design_multiple_timelines(Len(events), plot.characters, techniques)
      flashback_structure == _design_flashback_structure(events)
      prophetic_elements == _place_prophetic_elements(Len(events), techniques)
      convergence_points == _design_convergence_points(timelines)
  IN  IF analysis.plot_complexity = -1 THEN [exception |-> "ZeroDivisionError"]
      ELSE IF starting_point.exception # "none" THEN [exception |-> starting_point.exception]
      ELSE [exception |-> "none",
            structure_type |-> techniques,
            starting_point |-> starting_point,
            timelines |-> timelines,
            flashback_structure |-> flashback_structure,
            prophetic_elements |-> prophetic_elements,
            convergence_points |-> convergence_points,
            reading_path |-> _optimize_reading_path(timelines, flashback_structure,
                                                    prophetic_elements)]

\* most events of a plot given to the designer
MaxDsgEvents == 4

\* events: a quiet action, an action that holds a secret, a revelation with
\* two dependencies
DsgEvents ==
  {[type |-> "action", dependencies |-> 0, tags |-> {}, importance |-> 0,
    emotional_impact |-> 2],
   [type |-> "action", dependencies |-> 0, tags |-> {"secret"}, importance |-> 5,
    emotional_impact |-> 8],
   [type |-> "revelation", dependencies |-> 2, tags |-> {}, importance |-> 9,
    emotional_impact |-> 6]}

\* plots of no or three characters
DsgPlots ==
  [events : UNION {[1..n -> DsgEvents] : n \in 0..MaxDsgEvents},
   characters : {0, 3},
   words : SUBSET {"magic", "war", "mystery"}]

\* TemporalStructureDesigner.__init__: no call made yet
DsgIdle ==
  /\ dsg_pc = "idle"
  /\ dsg_plot = <<>>
  /\ dsg_result = <<>>

\* one call create_temporal_complexity(linear_plot)
CreateTemporalComplexityCall ==
  /\ dsg_pc = "idle"
  /\ \E plot \in DsgPlots :
       /\ dsg_plot' = plot
       /\ dsg_result' = create_temporal_complexity(plot)
       /\ dsg_pc' = IF create_temporal_complexity(plot).exception = "none"
                      THEN "returned" ELSE "raised"
  /\ UNCHANGED <<optVars, scoreVars, valVars, pipeVars, semVars, techVars, journeyVars>>

DsgNext == CreateTemporalComplexityCall

----------------------------------------------------------------------------
(* The nodes of the graph of ComputationallyOptimizedFantasyEngine and the *)
(* return of main                                                          *)

PipeIdle ==
  /\ pc = "done"
  /\ plot_events = 0
  /\ reversal_map = <<>>
  /\ reading_path = <<>>
  /\ write_k = 0
  /\ llm_pending = FALSE
  /\ llm_calls = 0
  /\ prompt = Unset
  /\ local_manuscript = <<>>
  /\ st_manuscript = Unset
  /\ narrative_metrics = Unset
  /\ final_result = Unset
  /\ failed_chapter = 0
  /\ main_result = NotReturned

\* main() has built the engine and calls create_optimized_fantasy_novel
PipeInit ==
  /\ pc = "create_foundation"
  /\ plot_events = 0
  /\ reversal_map = <<>>
  /\ reading_path = <<>>
  /\ write_k = 0
  /\ llm_pending = FALSE
  /\ llm_calls = 0
  /\ prompt = Unset
  /\ local_manuscript = <<>>
  /\ st_manuscript = Unset
  /\ narrative_metrics = Unset
  /\ final_result = Unset
  /\ failed_chapter = 0
  /\ main_result = NotReturned

\* _create_foundation_node: chain.ainvoke returns a foundation of LongPlot
\* events, enough for ten chapters
CreateLongFoundation ==
  /\ pc = "create_foundation"
  /\ plot_events' = LongPlot
  /\ llm_calls' = llm_calls + 1
  /\ pc' = "optimize_plot_structure"
  /\ UNCHANGED <<reversal_map, reading_path, write_k, llm_pending, prompt,
                 local_manuscript, st_manuscript, narrative_metrics, final_result,
                 failed_chapter, main_result, valVars>>
  /\ UNCHANGED <<optVars, scoreVars, semVars, techVars, journeyVars, dsgVars>>

\* _create_foundation_node: chain.ainvoke returns a foundation of n events
CreateFoundation ==
  /\ pc = "create_foundation"
  /\ \E n \in 0..MaxEvents : plot_events' = n
  /\ llm_calls' = llm_calls + 1
  /\ pc' = "optimize_plot_structure"
  /\ UNCHANGED <<reversal_map, reading_path, write_k, llm_pending, prompt,
                 local_manuscript, st_manuscript, narrative_metrics, final_result,
                 failed_chapter, main_result, valVars>>
  /\ UNCHANGED <<optVars, scoreVars, semVars, techVars, journeyVars, dsgVars>>

\* _create_foundation_node: chain.ainvoke (the call or the parser) raises
CreateFoundationFail ==
  /\ pc = "create_foundation"
  /\ llm_calls' = llm_calls + 1
  /\ pc' = "exception"
  /\ UNCHANGED <<plot_events, reversal_map, reading_path, write_k, llm_pending, prompt,
                 local_manuscript, st_manuscript, narrative_metrics, final_result,
                 failed_chapter, main_result, valVars>>
  /\ UNCHANGED <<optVars, scoreVars, semVars, techVars, journeyVars, dsgVars>>

\* _optimize_plot_structure_node: one reversal per event (optimize_reversal_sequence)
OptimizePlotStructure ==
  /\ pc = "optimize_plot_structure"
  /\ pc' = "design_reversal_map"
  /\ UNCHANGED <<plot_events, reversal_map, reading_path, write_k, llm_pending, llm_calls,
                 prompt, local_manuscript, st_manuscript, narrative_metrics, final_result,
                 failed_chapter, main_result, valVars>>
  /\ UNCHANGED <<optVars, scoreVars, semVars, techVars, journeyVars, dsgVars>>

\* _design_reversal_map_node: reversal i goes to chapter i // 3 + 1
DesignReversalMap ==
  /\ pc = "design_reversal_map"
  /\ reversal_map' =
       [c \in {(i \div 3) + 1 : i \in 0..(plot_events - 1)} |->
          [j \in 1..Cardinality({i \in 0..(plot_events - 1) : (i \div 3) + 1 = c}) |->
             3 * (c - 1) + (j - 1)]]
  /\ pc' = "create_nonlinear_structure"
  /\ UNCHANGED <<plot_events, reading_path, write_k, llm_pending, llm_calls,
                 prompt, local_manuscript, st_manuscript, narrative_metrics, final_result,
                 failed_chapter, main_result, valVars>>
  /\ UNCHANGED <<optVars, scoreVars, semVars, techVars, journeyVars, dsgVars>>

\* a reading path of n // 3 chapters
XCreateNonlinearStructureFloor ==
  /\ pc = "create_nonlinear_structure"
  /\ reading_path' = [j \in 1..(plot_events \div 3) |-> j]
  /\ pc' = "write_manuscript"
  /\ UNCHANGED <<plot_events, reversal_map, write_k, llm_pending, llm_calls,
                 prompt, local_manuscript, st_manuscript, narrative_metrics, final_result,
                 failed_chapter, main_result, valVars>>
  /\ UNCHANGED <<optVars, scoreVars, semVars, techVars, journeyVars, dsgVars>>

\* _create_nonlinear_structure_node: chapters 1..(n + 2) // 3
CreateNonlinearStructure ==
  /\ pc = "create_nonlinear_structure"
  /\ reading_path' = [j \in 1..((plot_events + 2) \div 3) |-> j]
  /\ pc' = "write_manuscript"
  /\ UNCHANGED <<plot_events, reversal_map, write_k, llm_pending, llm_calls,
                 prompt, local_manuscript, st_manuscript, narrative_metrics, final_result,
                 failed_chapter, main_result, valVars>>
  /\ UNCHANGED <<optVars, scoreVars, semVars, techVars, journeyVars, dsgVars>>

\* _write_optimized_manuscript_node, lines 202-245: the next chapter's
\* prompt is built from the chapters written so far and ainvoke is awaited
WriteChapterBegin ==
  /\ pc = "write_manuscript"
  /\ ~llm_pending
  /\ write_k < Len(reading_path)
  /\ LET chapter_num == reading_path[write_k + 1]
         chapter_reversals ==
           IF chapter_num \in DOMAIN reversal_map THEN reversal_map[chapter_num] ELSE <<>>
     IN  prompt' =
           Set([chapter_num |-> chapter_num,
                \* the reversals whose narrative_function is listed; none
                \* stands for the fallback directive
                reversal_functions |-> chapter_reversals,
                \* the chapters joined into previous_summary; none stands
                \* for the first-chapter sentence
                previous_summary |-> local_manuscript])
  /\ llm_pending' = TRUE
  /\ llm_calls' = llm_calls + 1
  /\ UNCHANGED <<pc, plot_events, reversal_map, reading_path, write_k,
                 local_manuscript, st_manuscript, narrative_metrics, final_result,
                 failed_chapter, main_result, valVars>>
  /\ UNCHANGED <<optVars, scoreVars, semVars, techVars, journeyVars, dsgVars>>

\* line 246: the awaited call returned; the chapter enters the manuscript
WriteChapterReturn ==
  /\ pc = "write_manuscript"
  /\ llm_pending
  /\ \E text \in LlmTextsFor(plot_events) :
       local_manuscript' =
         [c \in DOMAIN local_manuscript \cup {reading_path[write_k + 1]} |->
            IF c = reading_path[write_k + 1] THEN text ELSE local_manuscript[c]]
  /\ write_k' = write_k + 1
  /\ llm_pending' = FALSE
  /\ UNCHANGED <<pc, plot_events, reversal_map, reading_path, llm_calls, prompt,
                 st_manuscript, narrative_metrics, final_result,
                 failed_chapter, main_result, valVars>>
  /\ UNCHANGED <<optVars, scoreVars, semVars, techVars, journeyVars, dsgVars>>

\* a failure handled by substituting an empty chapter and carrying on
XWriteChapterFailSubstitute ==
  /\ pc = "write_manuscript"
  /\ llm_pending
  /\ failed_chapter' = reading_path[write_k + 1]
  /\ local_manuscript' =
       [c \in DOMAIN local_manuscript \cup {reading_path[write_k + 1]} |->
          IF c = reading_path[write_k + 1] THEN ChapterText(PlainText, {})
          ELSE local_manuscript[c]]
  /\ write_k' = write_k + 1
  /\ llm_pending' = FALSE
  /\ UNCHANGED <<pc, plot_events, reversal_map, reading_path, llm_calls, prompt,
                 st_manuscript, narrative_metrics, final_result, main_result, valVars>>
  /\ UNCHANGED <<optVars, scoreVars, semVars, techVars, journeyVars, dsgVars>>

\* line 245: the awaited call raised; the exception leaves the node and
\* graph.ainvoke
WriteChapterFail ==
  /\ pc = "write_manuscript"
  /\ llm_pending
  /\ failed_chapter' = reading_path[write_k + 1]
  /\ llm_pending' = FALSE
  /\ pc' = "exception"
  /\ UNCHANGED <<plot_events, reversal_map, reading_path, write_k, llm_calls, prompt,
                 local_manuscript, st_manuscript, narrative_metrics, final_result,
                 main_result, valVars>>
  /\ UNCHANGED <<optVars, scoreVars, semVars, techVars, journeyVars, dsgVars>>

\* a loop that stops one chapter short of the reading path
XWriteManuscriptReturnEarly ==
  /\ pc = "write_manuscript"
  /\ ~llm_pending
  /\ write_k >= Len(reading_path) - 1
  /\ st_manuscript' = Set(local_manuscript)
  /\ pc' = "verify_metrics"
  /\ UNCHANGED <<plot_events, reversal_map, reading_path, write_k, llm_pending, llm_calls,
                 prompt, local_manuscript, narrative_metrics, final_result,
                 failed_chapter, main_result, valVars>>
  /\ UNCHANGED <<optVars, scoreVars, semVars, techVars, journeyVars, dsgVars>>

\* line 247: the loop is exhausted and the node returns the manuscript
WriteManuscriptReturn ==
  /\ pc = "write_manuscript"
  /\ ~llm_pending
  /\ write_k = Len(reading_path)
  /\ st_manuscript' = Set(local_manuscript)
  /\ pc' = "verify_metrics"
  /\ UNCHANGED <<plot_events, reversal_map, reading_path, write_k, llm_pending, llm_calls,
                 prompt, local_manuscript, narrative_metrics, final_result,
                 failed_chapter, main_result, valVars>>
  /\ UNCHANGED <<optVars, scoreVars, semVars, techVars, journeyVars, dsgVars>>

\* significant reversals: the intensities above 0.6
SIGNIFICANT_REVERSAL == <<3, 5>>

\* lines 268-271: |all_valences[i] - all_valences[i - 1]| for i in 1..len - 1
ReversalIntensities(all_valences) ==
  [i \in 1..(Len(all_valences) - 1) |->
     FracAbs(FracSub(all_valences[i + 1], all_valences[i]))]

\* np.mean(values)
Mean(values) == FracMul(FracSum(values), 1, Len(values))

\* np.var(values): the mean of the squared deviations from the mean
Var(values) ==
  LET mean == Mean(values)
      deviations == [i \in 1..Len(values) |-> FracSub(values[i], mean)]
  IN  Mean([i \in 1..Len(values) |->
              Frac(deviations[i][1] * deviations[i][1], deviations[i][2] * deviations[i][2])])

\* min(1.0, x / threshold) for a fraction x; the threshold is in units of
\* 1 / ONE
CappedRatioOf(x, threshold) ==
  LET ratio == Frac(x[1] * ONE, x[2] * threshold)
  IN  IF FracLess(<<1, 1>>, ratio) THEN <<1, 1>> ELSE ratio

\* the significant reversals counted per transition between chapters
XReversalFrequencyPerTransition(significant_reversals, manuscript) ==
  Frac(Len(significant_reversals), Max2(1, Cardinality(DOMAIN manuscript) - 1))

\* line 279: len(significant_reversals) / max(1, len(manuscript))
ReversalFrequency(significant_reversals, manuscript) ==
  Frac(Len(significant_reversals), Max2(1, Cardinality(DOMAIN manuscript)))

\* calculate_narrative_success_probability on the metrics of the verify
\* node, which are fractions and all present
SuccessProbabilityOf(m) ==
  FracSum(<<FracMul(CappedRatioOf(m.reversal_frequency, REVERSAL_FREQUENCY_TARGET),
                    weights["reversal"], 20),
            FracMul(CappedRatioOf(m.average_reversal_intensity, INTENSITY_TARGET),
                    weights["intensity"], 20),
            FracMul(CappedRatioOf(m.emotional_variance, VARIANCE_TARGET),
                    weights["variance"], 20),
            FracMul(CappedRatioOf(m.semantic_distance, DISTANCE_TARGET),
                    weights["distance"], 20)>>)

\* lines 268-291: the metrics dict of a manuscript with a chapter, from the
\* valences of its chapters in the order they were analysed
MetricsOf(manuscript, all_valences) ==
  LET reversal_intensities == ReversalIntensities(all_valences)
      significant_reversals ==
        SelectSeq(reversal_intensities, LAMBDA intensity : FracLess(SIGNIFICANT_REVERSAL, intensity))
      semantic_distance ==
        calculate_total_semantic_distance([c \in DOMAIN manuscript |-> manuscript[c].domains])
      metrics_before ==
        [reversal_frequency |-> ReversalFrequency(significant_reversals, manuscript),
         average_reversal_intensity |->
           IF significant_reversals # <<>> THEN Mean(significant_reversals) ELSE <<0, 1>>,
         emotional_variance |-> Var(all_valences),
         semantic_distance |-> Frac(semantic_distance, DIST_ONE)]
  IN  [keys |-> MetricKeys \cup {"narrative_speed", "valence_history", "success_score"},
       reversal_frequency |-> metrics_before.reversal_frequency,
       average_reversal_intensity |-> metrics_before.average_reversal_intensity,
       emotional_variance |-> metrics_before.emotional_variance,
       semantic_distance |-> metrics_before.semantic_distance,
       valence_history |-> all_valences,
       success_score |-> SuccessProbabilityOf(metrics_before)]

\* _verify_success_metrics_node.  The chapters are analysed in the order of
\* sorted(manuscript.items()) by the engine's one valence tracker.  An empty
\* manuscript gives the empty metrics dict.
VerifySuccessMetrics ==
  /\ pc = "verify_metrics"
  /\ IF DOMAIN st_manuscript[1] = {}
       THEN /\ narrative_metrics' = Set([keys |-> {}, valence_history |-> <<>>])
            /\ UNCHANGED valVars
       ELSE LET manuscript == st_manuscript[1]
                order == SortedChapters(DOMAIN manuscript)
                all_valences ==
                  [j \in 1..Len(order) |-> SceneValence(manuscript[order[j]], order[j])]
                last == order[Len(order)]
            IN  /\ narrative_metrics' = Set(MetricsOf(manuscript, all_valences))
                /\ valence_history' = valence_history \o all_valences
                /\ current_valence' = all_valences[Len(order)]
                /\ emotional_events' =
                     emotional_events \o
                       ConcatAll([j \in 1..Len(order) |-> EventsOf(order[j], all_valences[j])])
                /\ val_args' = <<manuscript[last], last>>
                /\ val_result' = all_valences[Len(order)]
  /\ pc' = "finalize_novel"
  /\ UNCHANGED <<plot_events, reversal_map, reading_path, write_k, llm_pending, llm_calls,
                 prompt, local_manuscript, st_manuscript, final_result,
                 failed_chapter, main_result>>
  /\ UNCHANGED <<optVars, scoreVars, semVars, techVars, journeyVars, dsgVars>>

\* _finalize_node: state["narrative_metrics"]["success_score"] is read
FinalizeNovel ==
  /\ pc = "finalize_novel"
  /\ IF "success_score" \in narrative_metrics[1].keys
       THEN /\ final_result' =
                 Set([manuscript |-> st_manuscript[1],
                      narrative_metrics |-> narrative_metrics[1]])
            /\ pc' = "END"
       ELSE /\ pc' = "exception"
            /\ UNCHANGED final_result
  /\ UNCHANGED <<plot_events, reversal_map, reading_path, write_k, llm_pending, llm_calls,
                 prompt, local_manuscript, st_manuscript, narrative_metrics,
                 failed_chapter, main_result, valVars>>
  /\ UNCHANGED <<optVars, scoreVars, semVars, techVars, journeyVars, dsgVars>>

\* main, lines 72-112: the engine returned final_result; main returns it
MainReturnResult ==
  /\ pc = "END"
  /\ main_result' = Returned(final_result[1])
  /\ pc' = "done"
  /\ UNCHANGED <<plot_events, reversal_map, reading_path, write_k, llm_pending, llm_calls,
                 prompt, local_manuscript, st_manuscript, narrative_metrics, final_result,
                 failed_chapter, valVars>>
  /\ UNCHANGED <<optVars, scoreVars, semVars, techVars, journeyVars, dsgVars>>

\* main, lines 114-119: `except Exception` prints the error and returns None
MainExcept ==
  /\ pc = "exception"
  /\ main_result' = ReturnedNone
  /\ pc' = "done"
  /\ UNCHANGED <<plot_events, reversal_map, reading_path, write_k, llm_pending, llm_calls,
                 prompt, local_manuscript, st_manuscript, narrative_metrics, final_result,
                 failed_chapter, valVars>>
  /\ UNCHANGED <<optVars, scoreVars, semVars, techVars, journeyVars, dsgVars>>

PipeNext ==
  \/ CreateFoundation
  \/ CreateFoundationFail
  \/ OptimizePlotStructure
  \/ DesignReversalMap
  \/ CreateNonlinearStructure
  \/ WriteChapterBegin
  \/ WriteChapterReturn
  \/ WriteChapterFail
  \/ WriteManuscriptReturn
  \/ VerifySuccessMetrics
  \/ FinalizeNovel
  \/ MainReturnResult
  \/ MainExcept

\* the nodes, with a plot long enough for ten chapters among the plots
PipeLongNext ==
  \/ PipeNext
  \/ CreateLongFoundation


----------------------------------------------------------------------------
(* optimize_reversal_sequence                                              *)

\* no call of the optimizer in progress
OptIdle ==
  /\ base_sequence = <<>>
  /\ opt_i = 0
  /\ current_state = 0
  /\ optimized_reversals = <<>>
  /\ opt_pc = "returned"

OptInit ==
  /\ base_sequence \in InputSeqs
  /\ opt_i = 0
  /\ current_state = 0
  /\ optimized_reversals = <<>>
  /\ opt_pc = "loop"

\* lines 104-128: the NarrativeReversal built by iteration i from the raw
\* target, the running current state and the jitter drawn for its arc
MakeReversal(i, raw_target, current, variation) ==
  LET target_state == AdjustTarget(raw_target, current)
      reversal_type == _select_optimal_reversal_type(current, target_state, i)
  IN  [type |-> reversal_type,
       position |-> [chapter |-> (i \div 3) + 1, scene |-> (i % 3) + 1],
       current_state |-> current,
       target_state |-> target_state,
       intensity |-> Abs(target_state - current),
       narrative_function |-> _determine_narrative_function(reversal_type),
       emotional_arc |-> _generate_emotional_arc(current, target_state, variation)]

\* an advance to the target as given, before its adjustment
XAdvanceRaw(reversal, raw_target) == raw_target

\* line 131: `current_state = target_state`, the adjusted target
Advance(reversal, raw_target) == reversal.target_state

\* one iteration of `for i, target_state in enumerate(base_sequence)`
OptStep ==
  /\ opt_pc = "loop"
  /\ opt_i < Len(base_sequence)
  /\ \E variation \in JitterTriples :
       LET raw_target == base_sequence[opt_i + 1]
           reversal == MakeReversal(opt_i, raw_target, current_state, variation)
       IN  IF reversal.narrative_function = KeyError
             THEN /\ opt_pc' = "raised"
                  /\ UNCHANGED <<opt_i, current_state, optimized_reversals>>
             ELSE /\ optimized_reversals' = Append(optimized_reversals, reversal)
                  /\ current_state' = Advance(reversal, raw_target)
                  /\ opt_i' = opt_i + 1
                  /\ opt_pc' = "loop"
  /\ UNCHANGED <<base_sequence, scoreVars, valVars, pipeVars, semVars, techVars,
                 journeyVars, dsgVars>>

\* `return optimized_reversals` once the loop is exhausted
OptReturn ==
  /\ opt_pc = "loop"
  /\ opt_i = Len(base_sequence)
  /\ opt_pc' = "returned"
  /\ UNCHANGED <<base_sequence, opt_i, current_state, optimized_reversals>>
  /\ UNCHANGED <<scoreVars, valVars, pipeVars, semVars, techVars, journeyVars, dsgVars>>

OptNext == OptStep \/ OptReturn

\* every component freshly constructed, no call made yet
AllIdle ==
  /\ OptIdle /\ ScoreIdle /\ ValIdle /\ PipeIdle /\ SemIdle /\ TechIdle
  /\ JourneyIdle /\ DsgIdle

OptStart ==
  /\ OptInit /\ ScoreIdle /\ ValIdle /\ PipeIdle /\ SemIdle /\ TechIdle
  /\ JourneyIdle /\ DsgIdle

SpecOpt == OptStart /\ [][OptNext]_vars

----------------------------------------------------------------------------
(* Claims about optimize_reversal_sequence                                 *)

AllInRange == \A k \in 1..Len(base_sequence) : InRange(base_sequence[k])

Produced == {optimized_reversals[j] : j \in 1..Len(optimized_reversals)}

\* C1: for every input sequence of targets in [-1,1], every produced
\* Reversal has intensity >= 0.8.
C1_IntensityFloor ==
  AllInRange => \A r \in Produced : r.intensity >= MIN_INTENSITY

\* C5: every produced Reversal, for any input sequence, has an arc of
\* exactly 5 points, the first equal to its current_state, the last equal
\* to its target_state, and every point within [-1,1].
C5_ArcAnchored ==
  \A r \in Produced :
    /\ Len(r.emotional_arc) = 5
    /\ r.emotional_arc[1] = r.current_state
    /\ r.emotional_arc[5] = r.target_state
    /\ \A k \in 1..5 : InRange(r.emotional_arc[k])

\* C6: the optimizer never raises, and for every input sequence (in range
\* or not) every produced Reversal has target_state and current_state
\* within [-1,1].
C6_StatesClamped ==
  /\ opt_pc # "raised"
  /\ \A r \in Produced : InRange(r.target_state) /\ InRange(r.current_state)

\* C7: one Reversal per input element, in input order; the first starts
\* from current_state 0.0 and each later one starts from the target_state
\* of its predecessor.
C7_OnePerElementChained ==
  /\ Len(optimized_reversals) = opt_i
  /\ opt_i <= Len(base_sequence)
  /\ opt_pc = "returned" => Len(optimized_reversals) = Len(base_sequence)
  /\ Len(optimized_reversals) >= 1 => optimized_reversals[1].current_state = 0
  /\ \A j \in 2..Len(optimized_reversals) :
       optimized_reversals[j].current_state = optimized_reversals[j - 1].target_state
  /\ \A j \in 1..Len(optimized_reversals) :
       LET r == optimized_reversals[j]
       IN  /\ r.position = [chapter |-> ((j - 1) \div 3) + 1, scene |-> ((j - 1) % 3) + 1]
           /\ Abs(base_sequence[j] - r.current_state) >= MIN_INTENSITY
                => r.target_state = base_sequence[j]
  /\ current_state =
       IF optimized_reversals = <<>> THEN 0
       ELSE optimized_reversals[Len(optimized_reversals)].target_state

C7_Witness ==
  /\ opt_pc = "returned"
  /\ Len(optimized_reversals) = 2
  /\ optimized_reversals[1].target_state # base_sequence[1]
  /\ optimized_reversals[2].target_state # base_sequence[2]
  /\ optimized_reversals[2].current_state = optimized_reversals[1].target_state

\* C8: the type at index i is decided from (current_state, adjusted
\* target_state, i): high-to-low gives betrayal_cascade (i < 3),
\* classic_peripeteia (3 <= i < 8) or pyrrhic_victory (i >= 8); low-to-high
\* gives false_defeat (3 <= i < 8) or recognition_scene; anything else gives
\* role_reversal.
C8_TypeTable ==
  \A j \in 1..Len(optimized_reversals) :
    LET r == optimized_reversals[j]
        i == j - 1
        down == r.current_state > 96 /\ r.target_state < -96
        up == r.current_state < -96 /\ r.target_state > 96
    IN  /\ (down /\ i < 3) => r.type = "betrayal_cascade"
        /\ (down /\ 3 <= i /\ i < 8) => r.type = "classic_peripeteia"
        /\ (down /\ i >= 8) => r.type = "pyrrhic_victory"
        /\ (up /\ 3 <= i /\ i < 8) => r.type = "false_defeat"
        /\ (up /\ ~(3 <= i /\ i < 8)) => r.type = "recognition_scene"
        /\ (~down /\ ~up) => r.type = "role_reversal"

C8_Witness ==
  /\ Len(optimized_reversals) >= 9
  /\ optimized_reversals[9].type = "pyrrhic_victory"
  /\ optimized_reversals[4].type = "false_defeat"
  /\ optimized_reversals[5].type = "classic_peripeteia"
  /\ optimized_reversals[2].type = "recognition_scene"
  /\ optimized_reversals[1].type = "role_reversal"

\* C9: the narrative_function lookup always succeeds: the table has an
\* entry for each of the 6 types, the classifier only returns those types,
\* and each Reversal carries the one fixed string of its type.
C9_LookupTotal ==
  /\ opt_pc # "raised"
  /\ DOMAIN functions = ReversalType
  /\ Cardinality(ReversalType) = 6
  /\ \A r \in Produced :
       /\ r.type \in ReversalType
       /\ r.narrative_function # KeyError
       /\ r.narrative_function = functions[r.type]
  /\ \A r1, r2 \in Produced :
       r1.type = r2.type => r1.narrative_function = r2.narrative_function

C9_Witness ==
  /\ opt_pc = "returned"
  /\ {r.type : r \in Produced} = ReversalType
  /\ \A r \in Produced : r.narrative_function = functions[r.type]

----------------------------------------------------------------------------
(* Claims about calculate_narrative_success_probability                    *)

SpecScore == AllIdle /\ [][ScoreNext]_vars

\* C3: the success score lies in [0,1] for every metrics mapping (any
\* values of the four inputs, any subset of the four keys).
C3_ScoreInUnitInterval ==
  score_pc = "returned" => 0 <= success_score /\ success_score <= SCORE_ONE

\* m2 raises one input of m1 and keeps the other three (an absent key
\* counts as the 0 that metrics.get supplies for it)
RaisesOneInput(m1, m2) ==
  \E k \in MetricKeys :
    /\ Get(m1, k) < Get(m2, k)
    /\ \A other \in MetricKeys \ {k} : Get(m1, other) = Get(m2, other)

\* C10: raising one of the four inputs while the other three stay fixed
\* never lowers the success score.
C10_Monotone ==
  [][(score_pc = "returned" /\ RaisesOneInput(metrics, metrics'))
       => success_score' >= success_score]_vars

\* a score strictly between the extremes, with one input beyond its
\* threshold and another below its threshold
C10_Witness ==
  /\ score_pc = "returned"
  /\ DOMAIN metrics = MetricKeys
  /\ metrics["reversal_frequency"] > REVERSAL_FREQUENCY_TARGET
  /\ metrics["emotional_variance"] > 0
  /\ metrics["emotional_variance"] < VARIANCE_TARGET
  /\ 0 < success_score /\ success_score < SCORE_ONE

\* the threshold an input is divided by, and the weight of its term
ThresholdOf(key) ==
  CASE key = "reversal_frequency" -> REVERSAL_FREQUENCY_TARGET
    [] key = "average_reversal_intensity" -> INTENSITY_TARGET
    [] key = "emotional_variance" -> VARIANCE_TARGET
    [] key = "semantic_distance" -> DISTANCE_TARGET

WeightOf(key) ==
  CASE key = "reversal_frequency" -> weights["reversal"]
    [] key = "average_reversal_intensity" -> weights["intensity"]
    [] key = "emotional_variance" -> weights["variance"]
    [] key = "semantic_distance" -> weights["distance"]

\* a returned score whose saturated inputs contribute their full weights
C11_Saturated ==
  score_pc = "returned" =>
    /\ (\A k \in MetricKeys : Get(metrics, k) >= ThresholdOf(k))
         => success_score = SCORE_ONE
    /\ \A k \in MetricKeys :
         (/\ Get(metrics, k) >= ThresholdOf(k)
          /\ \A other \in MetricKeys \ {k} : Get(metrics, other) = 0)
           => success_score = WeightOf(k) * RATIO_ONE

\* m2 raises an input of m1 that has already reached its threshold and
\* keeps the other three
RaisesSaturatedInput(m1, m2) ==
  \E k \in MetricKeys :
    /\ Get(m1, k) >= ThresholdOf(k)
    /\ Get(m2, k) > Get(m1, k)
    /\ \A other \in MetricKeys \ {k} : Get(m1, other) = Get(m2, other)

\* C11: each term saturates at its weight once its input reaches its
\* threshold: raising an input beyond its threshold leaves the score
\* unchanged, and all four inputs at or above their thresholds give
\* exactly 1.0.
C11_Saturates ==
  /\ []C11_Saturated
  /\ [][(score_pc = "returned" /\ RaisesSaturatedInput(metrics, metrics'))
         => success_score' = success_score]_vars

\* the test's metrics with every input beyond its threshold: score 1.0
C11_Witness ==
  /\ score_pc = "returned"
  /\ DOMAIN metrics = MetricKeys
  /\ \A k \in MetricKeys : metrics[k] > ThresholdOf(k)
  /\ success_score = SCORE_ONE

----------------------------------------------------------------------------
(* Claims about analyze_scene_valence                                      *)

SpecVal == AllIdle /\ [][ValNext]_vars

\* C2: the returned valence lies within [-1,1] for every text and every
\* scene position.
C2_ValenceInRange ==
  FracLeq(<<-1, 1>>, val_result) /\ FracLeq(val_result, <<1, 1>>)

\* the weighted hits of a text on the positive and on the negative lexicon
PositiveHits(text) == text.pos_weak + text.pos_moderate + text.pos_strong

NegativeHits(text) == text.neg_weak + text.neg_moderate + text.neg_strong

\* C15: for the empty text and for every text with no lexicon hit (whatever
\* modifiers it contains) the call returns exactly 0.0 at every position.
C15_NoHitIsZero ==
  (/\ val_args # <<>>
   /\ PositiveHits(val_args[1]) = 0
   /\ NegativeHits(val_args[1]) = 0)
    => val_result = <<0, 1>> /\ current_valence = <<0, 1>>

\* a text with modifiers only (intensifiers and one negator), late in the
\* story, scored 0.0
C15_Witness ==
  /\ val_args # <<>>
  /\ PositiveHits(val_args[1]) = 0
  /\ NegativeHits(val_args[1]) = 0
  /\ val_args[1].intensifiers > 0
  /\ val_args[1].negators_other = 1
  /\ val_args[2] >= 10
  /\ val_result = <<0, 1>>

\* C16 as stated: hits on the positive lexicon only give a valence > 0,
\* hits on the negative lexicon only give a valence < 0, at every position.
C16_SignFollowsLexicon ==
  val_args # <<>> =>
    /\ (PositiveHits(val_args[1]) > 0 /\ NegativeHits(val_args[1]) = 0)
         => FracLess(<<0, 1>>, val_result)
    /\ (NegativeHits(val_args[1]) > 0 /\ PositiveHits(val_args[1]) = 0)
         => FracLess(val_result, <<0, 1>>)

\* the occurrences of negators in a text, as text.count finds them
NegatorCount(text) == text.negators_other + text.wazukani

\* C16 amended: the sign of the valence follows the lexicon when the text
\* holds an even number of negator occurrences and is reversed when it
\* holds an odd number, at every position; it is never 0.
C16_SignFollowsNegation ==
  val_args # <<>> =>
    LET text == val_args[1]
        even == NegatorCount(text) % 2 = 0
    IN  /\ (PositiveHits(text) > 0 /\ NegativeHits(text) = 0)
             => IF even THEN FracLess(<<0, 1>>, val_result)
                        ELSE FracLess(val_result, <<0, 1>>)
        /\ (NegativeHits(text) > 0 /\ PositiveHits(text) = 0)
             => IF even THEN FracLess(val_result, <<0, 1>>)
                        ELSE FracLess(<<0, 1>>, val_result)

\* a text with positive hits only and one negator, scored below 0
C16_Witness ==
  /\ val_args # <<>>
  /\ PositiveHits(val_args[1]) > 0
  /\ NegativeHits(val_args[1]) = 0
  /\ NegatorCount(val_args[1]) = 1
  /\ FracLess(val_result, <<0, 1>>)

\* the modifiers as C21 states them: the same order and factors, and the
\* value brought back into [-1,1] after each multiplication
StepwiseClamped(text, base_valence) ==
  LET v1 == IF text.intensifiers > 0
              THEN FracClamp(FracMul(base_valence, Min2(10, 5 + text.intensifiers), 5))
              ELSE base_valence
      v2 == IF text.diminishers_other + text.wazukani > 0
              THEN FracClamp(FracMul(v1, 1, 2)) ELSE v1
      v3 == IF NegatorCount(text) % 2 = 1 THEN FracClamp(FracMul(v2, -4, 5)) ELSE v2
  IN  v3

\* C21: the modifiers are applied in the order intensifier (factor
\* min(2.0, 1 + 0.2 x count)), diminisher (0.5 if any), negator (-0.8 for an
\* odd count), and the value is clamped to [-1,1] after every one of these
\* multiplications.  Read off the value returned at a middle position
\* (4..9), where the position leaves the modified valence as it is.
C21_ClampedEachStep ==
  (val_args # <<>> /\ val_args[2] > 3 /\ val_args[2] < 10) =>
    val_result = StepwiseClamped(val_args[1], _calculate_base_valence(val_args[1]))

----------------------------------------------------------------------------
(* Claims about repeated calls of analyze_scene_valence on one tracker     *)

\* most calls made on one tracker
MaxCalls == 3

\* Scene texts whose valences in the middle of the story are 0, 1, -1,
\* 0.7 (the bound of `> 0.7` itself), 0.9 and -0.8: no hit; one strong
\* positive word; one strong negative word; a strong positive word with two
\* intensifiers and a diminisher; the same with four intensifiers; a
\* strong positive word with one negator.
SeqTexts ==
  {PlainText,
   [PlainText EXCEPT !.pos_strong = 1],
   [PlainText EXCEPT !.neg_strong = 1],
   [PlainText EXCEPT !.pos_strong = 1, !.intensifiers = 2, !.diminishers_other = 1],
   [PlainText EXCEPT !.pos_strong = 1, !.intensifiers = 4, !.diminishers_other = 1],
   [PlainText EXCEPT !.pos_strong = 1, !.negators_other = 1]}

\* scene positions early, in the middle and late in the story
SeqPositions == {0, 5, 10}

\* one more call analyze_scene_valence on the same tracker
RepeatedCall ==
  /\ Len(valence_history) < MaxCalls
  /\ \E scene_text \in SeqTexts, scene_position \in SeqPositions :
       AnalyzeSceneValence(scene_text, scene_position)
  /\ UNCHANGED <<optVars, scoreVars, pipeVars, semVars, techVars, journeyVars, dsgVars>>

ValSeqNext == RepeatedCall

SpecValSeq == AllIdle /\ [][ValSeqNext]_vars

\* the event a call returning valence v at scene position p records
RecordedEvent(p, v, e) ==
  /\ e.position = p
  /\ e.valence = v
  /\ e.intensity = FracAbs(v)
  /\ e.event_type = IF FracLess(<<4, 5>>, FracAbs(v)) THEN "high_intensity"
                    ELSE "moderate_intensity"

\* C17: a call appends one event (intensity |valence|, high_intensity when
\* > 0.8, else moderate_intensity) if and only if the absolute value of
\* the returned valence is > 0.7; otherwise the event history is unchanged;
\* the earlier entries of both histories are never modified or removed.
C17_AppendOnly ==
  [][LET n == Len(emotional_events)
         h == Len(valence_history)
     IN  /\ Len(valence_history') = h + 1
         /\ SubSeq(valence_history', 1, h) = valence_history
         /\ valence_history'[h + 1] = val_result'
         /\ IF FracLess(<<7, 10>>, FracAbs(val_result'))
              THEN /\ Len(emotional_events') = n + 1
                   /\ SubSeq(emotional_events', 1, n) = emotional_events
                   /\ RecordedEvent(val_args'[2], val_result', emotional_events'[n + 1])
              ELSE emotional_events' = emotional_events]_vars

\* three calls returning 1.0, then exactly 0.7, then -0.8: the second call
\* recorded nothing, the first a high_intensity event and the third a
\* moderate_intensity event
C17_Witness ==
  /\ valence_history = <<(<<1, 1>>), (<<7, 10>>), (<<-4, 5>>)>>
  /\ Len(emotional_events) = 2
  /\ emotional_events[1].event_type = "high_intensity"
  /\ emotional_events[2].event_type = "moderate_intensity"
  /\ emotional_events[2].valence = <<-4, 5>>

\* C30: the value a call of analyze_scene_valence returns depends on its
\* arguments only: on a tracker with any history of earlier calls it is the
\* value a freshly constructed tracker returns for the same text and
\* position, and it is the value the call appends to the history.
C30_DependsOnArguments ==
  val_args # <<>> =>
    /\ val_result = SceneValence(val_args[1], val_args[2])
    /\ current_valence = val_result
    /\ valence_history[Len(valence_history)] = val_result

\* the third call has the arguments of the first, after a second call that
\* returned another value: it returns what the first returned
C30_Witness ==
  /\ Len(valence_history) = 3
  /\ val_args = <<[PlainText EXCEPT !.pos_strong = 1], 5>>
  /\ valence_history[1] = val_result
  /\ valence_history[2] = <<-4, 5>>
  /\ val_result = <<1, 1>>

----------------------------------------------------------------------------
(* Claims about the generation pipeline                                    *)

PipeStart ==
  /\ OptIdle /\ ScoreIdle /\ ValIdle /\ PipeInit /\ SemIdle /\ TechIdle
  /\ JourneyIdle /\ DsgIdle

SpecPipe == PipeStart /\ [][PipeNext]_vars

\* An exception raised inside graph.ainvoke unwinds to main's handler at
\* once: the handler cannot be postponed for ever.
SpecPipeFair == SpecPipe /\ WF_vars(MainExcept)

\* the engine with plots long enough for ten chapters among its plots
SpecPipeLong == PipeStart /\ [][PipeLongNext]_vars

\* once the call for chapter failed_chapter has raised: nothing but the
\* chapters before it was generated, no later node ran, main returns None
C4_Aborted ==
  failed_chapter # 0 =>
    /\ pc \in {"exception", "done"}
    /\ ~llm_pending
    /\ DOMAIN local_manuscript = 1..(failed_chapter - 1)
    /\ llm_calls = 1 + failed_chapter
    /\ st_manuscript = Unset
    /\ narrative_metrics = Unset
    /\ final_result = Unset
    /\ valence_history = <<>>
    /\ main_result \in {NotReturned, ReturnedNone}
    /\ pc = "done" => main_result = ReturnedNone

\* C4: if the generation call fails while writing chapter k, the run is
\* aborted: no chapter after k is generated, verify-metrics and finalize
\* never run, no final result is produced, and the failure reaches main,
\* which returns None.
C4_FailureAborts ==
  /\ []C4_Aborted
  /\ (failed_chapter # 0) ~> (pc = "done" /\ main_result = ReturnedNone)

\* the call for chapter 3 failed after two chapters were written, and main
\* has returned
C4_Witness ==
  /\ failed_chapter = 3
  /\ Len(reading_path) = 4
  /\ DOMAIN local_manuscript = {1, 2}
  /\ pc = "done"
  /\ main_result = ReturnedNone

\* the chapters of the first k entries of the reading path
FirstChapters(k) == {reading_path[j] : j \in 1..k}

\* while the manuscript is written: the chapters written are the first
\* write_k of the reading path, one generation call was started per
\* written chapter plus the pending one, and a pending call is the call for
\* the next chapter, its prompt built from the written chapters
C20_OneAtATime ==
  /\ pc = "write_manuscript" =>
       /\ DOMAIN local_manuscript = FirstChapters(write_k)
       /\ llm_calls = 1 + write_k + (IF llm_pending THEN 1 ELSE 0)
       /\ st_manuscript = Unset
       /\ valence_history = <<>>
  /\ llm_pending =>
       /\ pc = "write_manuscript"
       /\ write_k < Len(reading_path)
       /\ prompt # Unset
       /\ prompt[1].chapter_num = reading_path[write_k + 1]
       /\ prompt[1].chapter_num \notin DOMAIN local_manuscript
       /\ prompt[1].previous_summary = local_manuscript
       /\ DOMAIN prompt[1].previous_summary = 1..(prompt[1].chapter_num - 1)
  /\ (st_manuscript # Unset \/ narrative_metrics # Unset) =>
       /\ write_k = Len(reading_path)
       /\ st_manuscript = Set(local_manuscript)
       /\ DOMAIN local_manuscript = FirstChapters(Len(reading_path))

\* a chapter's text enters the manuscript only as the pending call for that
\* chapter returns, and the chapters written before it keep their texts
C20_AfterReturn ==
  local_manuscript' # local_manuscript =>
    /\ llm_pending /\ ~llm_pending'
    /\ DOMAIN local_manuscript' = DOMAIN local_manuscript \cup {prompt[1].chapter_num}
    /\ \A c \in DOMAIN local_manuscript : local_manuscript'[c] = local_manuscript[c]

\* C20: chapters are generated strictly one at a time in reading-path
\* order: the call for chapter k starts only after chapters 1..k-1 are
\* complete, its prompt summary is built only from those, a chapter's text
\* enters the manuscript only after its call has returned, and
\* verify-metrics starts only after every chapter has been written.
C20_Sequential ==
  /\ []C20_OneAtATime
  /\ [][C20_AfterReturn]_vars

\* the call for chapter 3 is pending with chapters 1 and 2 written and a
\* fourth chapter still to come
C20_Witness ==
  /\ pc = "write_manuscript"
  /\ llm_pending
  /\ Len(reading_path) = 4
  /\ prompt[1].chapter_num = 3
  /\ DOMAIN prompt[1].previous_summary = {1, 2}
  /\ llm_calls = 4

\* the reversal map and the reading path are built: the structure node
\* has run
StructureBuilt ==
  pc \notin {"create_foundation", "optimize_plot_structure", "design_reversal_map",
             "create_nonlinear_structure"}

\* ceil(n / 3)
CeilThird(n) == CHOOSE m \in 0..n : 3 * (m - 1) < n /\ n <= 3 * m

\* C27: for a plot of n >= 1 events reversal i is assigned to chapter
\* i // 3 + 1, the chapter of its position label; the reading path is
\* exactly the chapters 1..ceil(n / 3); every reversal belongs to a chapter
\* of the path, every chapter of the path has 1 to 3 reversals and no
\* chapter prompt falls back on the directive for a chapter without
\* reversals.
C27_MapMatchesPath ==
  (plot_events >= 1 /\ StructureBuilt) =>
    /\ reading_path = [j \in 1..CeilThird(plot_events) |-> j]
    /\ DOMAIN reversal_map = Members(reading_path)
    /\ \A i \in 0..(plot_events - 1) :
         /\ (i \div 3) + 1 \in DOMAIN reversal_map
         /\ i \in Members(reversal_map[(i \div 3) + 1])
         /\ MakeReversal(i, 0, 0, <<0, 0, 0>>).position.chapter = (i \div 3) + 1
         /\ \A c \in DOMAIN reversal_map \ {(i \div 3) + 1} :
              i \notin Members(reversal_map[c])
    /\ \A c \in Members(reading_path) : Len(reversal_map[c]) \in 1..3
    /\ prompt # Unset => prompt[1].reversal_functions # <<>>

\* a plot of four events: the second chapter is written with its one
\* reversal
C27_Witness ==
  /\ plot_events = 4
  /\ pc = "write_manuscript"
  /\ prompt # Unset
  /\ prompt[1].chapter_num = 2
  /\ prompt[1].reversal_functions = <<3>>
  /\ Len(reversal_map[1]) = 3

\* the verify stage has computed the metrics of a manuscript with a chapter
Verified == narrative_metrics # Unset /\ "success_score" \in narrative_metrics[1].keys

\* 0.3 * min(1.0, reversal_frequency / 2.5)
ReversalTerm(m) ==
  FracMul(CappedRatioOf(m.reversal_frequency, REVERSAL_FREQUENCY_TARGET),
          weights["reversal"], 20)

\* C28: the success score of the verify stage is below 1.0 for every
\* manuscript: the significant reversals are at most the n - 1 transitions
\* of the n chapters, so reversal_frequency is below 1, the reversal term
\* is below 0.3 * (1 / 2.5) = 0.12 and the score is below 0.82.
C28_ScoreBelowOne ==
  Verified =>
    LET m == narrative_metrics[1]
        n == Cardinality(DOMAIN st_manuscript[1])
    IN  /\ FracLeq(<<0, 1>>, m.reversal_frequency)
        /\ FracLeq(m.reversal_frequency, <<n - 1, n>>)
        /\ FracLess(m.reversal_frequency, <<1, 1>>)
        /\ FracLess(ReversalTerm(m), <<3, 25>>)
        /\ FracLess(m.success_score, <<41, 50>>)
        /\ FracLess(m.success_score, <<1, 1>>)

\* a manuscript of which every transition is a significant reversal and the
\* score is above 0.6
C28_Witness ==
  /\ Verified
  /\ Cardinality(DOMAIN st_manuscript[1]) >= 3
  /\ narrative_metrics[1].reversal_frequency =
       <<Cardinality(DOMAIN st_manuscript[1]) - 1, Cardinality(DOMAIN st_manuscript[1])>>
  /\ FracLess(<<3, 5>>, narrative_metrics[1].success_score)

\* the chapters 1..n in the order of their numbers
Ascending(n) == [j \in 1..n |-> j]

\* the normalised sum of the distances between the chapters k and k + 1,
\* in thousandths
AscendingDistance(manuscript) ==
  LET n == Cardinality(DOMAIN manuscript)
      positions ==
        [j \in 1..n |-> _calculate_semantic_position(manuscript[j].domains, "action")]
  IN  Min2(DIST_ONE, (SumConsecutive(positions) * DIST_ONE) \div Max2(DIST_ONE, n * 2 * DIST_ONE))

\* C26: for every number of chapters the verify stage analyses the chapters
\* in ascending order of their numbers, the order in which they were
\* written, so that valence_history holds the valence of chapter k at place
\* k and the semantic distance is the normalised sum of the distances
\* between the chapters k and k + 1.
C26_AscendingOrder ==
  (narrative_metrics # Unset /\ st_manuscript # Unset /\ DOMAIN st_manuscript[1] # {}) =>
    LET manuscript == st_manuscript[1]
        n == Cardinality(DOMAIN manuscript)
    IN  /\ SortedChapters(DOMAIN manuscript) = Ascending(n)
        /\ narrative_metrics[1].valence_history =
             [j \in 1..n |-> SceneValence(manuscript[j], j)]
        /\ narrative_metrics[1].semantic_distance =
             Frac(AscendingDistance(manuscript), DIST_ONE)

----------------------------------------------------------------------------
(* Claims about the SemanticPacingController                               *)

SpecSem == AllIdle /\ [][SemNext]_vars

\* C12: distance_to is symmetric, zero on identical positions and never
\* negative.
C12_SymmetricDistance ==
  sem_pc = "distance_to" =>
    LET a == sem_args[1]
        b == sem_args[2]
    IN  /\ sem_result >= 0
        /\ sem_result = distance_to(b, a)
        /\ distance_to(a, a) = 0
        /\ a = b => sem_result = 0

\* two positions at a positive distance, the first with the smaller
\* physical coordinate
C12_Witness ==
  /\ sem_pc = "distance_to"
  /\ sem_args[1].physical < sem_args[2].physical
  /\ sem_args[1].emotional = sem_args[2].emotional
  /\ sem_result > 0

\* C13: calculate_total_semantic_distance returns exactly 0.0 for an empty
\* mapping and a score in [0.0, 1.0] for every manuscript.
C13_NormalisedDistance ==
  sem_pc = "calculate_total_semantic_distance" =>
    /\ 0 <= sem_result
    /\ sem_result <= DIST_ONE
    /\ DOMAIN sem_args[1] = {} => sem_result = 0

\* the empty mapping, scored 0.0
C13_Witness ==
  /\ sem_pc = "calculate_total_semantic_distance"
  /\ DOMAIN sem_args[1] = {}
  /\ sem_result = 0

\* the positions of a structure's events in reading order
ReadingOrder(chapters) ==
  ConcatAll([c \in 1..Len(chapters) |->
               [j \in 1..Len(chapters[c].events) |-> chapters[c].events[j].position]])

\* the distance from position 1 to position k + 1 along the path
RECURSIVE StepsUpTo(_, _)
StepsUpTo(path, k) ==
  IF k < 1 THEN 0 ELSE StepsUpTo(path, k - 1) + distance_to(path[k], path[k + 1])

\* the sum of the distances from a position to each position of a path
RECURSIVE FromOne(_, _)
FromOne(position, path) ==
  IF path = <<>> THEN 0
  ELSE distance_to(position, Head(path)) + FromOne(position, Tail(path))

\* the sum of the distances of all pairs of positions
RECURSIVE AllPairs(_)
AllPairs(path) ==
  IF Len(path) <= 1 THEN 0
  ELSE FromOne(Head(path), Tail(path)) + AllPairs(Tail(path))

\* C14: the total_distance of a trajectory is the sum of the distances
\* between consecutive positions in reading order, continuing across
\* chapter boundaries, and 0.0 for a trajectory of zero or one position.
C14_ConsecutiveSum ==
  /\ sem_pc = "_calculate_semantic_trajectory" =>
       LET path == ReadingOrder(sem_args[1])
       IN  /\ sem_result.positions = path
           /\ sem_result.total_distance = StepsUpTo(path, Len(path) - 1)
           /\ Len(path) <= 1 => sem_result.total_distance = 0
  /\ (sem_pc = "design_nonlinear_structure" /\ sem_result.exception = "none") =>
       LET path == ReadingOrder(sem_result.structure[1])
       IN  sem_result.total_distance = Set(StepsUpTo(path, Len(path) - 1))

\* four positions in two chapters, a step of positive length across the
\* chapter boundary, and a total below the sum over all pairs
C14_Witness ==
  /\ sem_pc = "_calculate_semantic_trajectory"
  /\ Len(sem_args[1]) = 2
  /\ Len(sem_result.positions) = 4
  /\ distance_to(sem_result.positions[3], sem_result.positions[4]) > 0
  /\ sem_result.total_distance > 0
  /\ sem_result.total_distance < AllPairs(sem_result.positions)

\* C19: design_nonlinear_structure on a plot with an empty event list
\* returns a result whose total_distance is 0.0 and raises no exception.
C19_EmptyPlot ==
  (sem_pc = "design_nonlinear_structure" /\ sem_args[1] = <<>>) =>
    /\ sem_result.exception = "none"
    /\ sem_result.total_distance = Set(0)

----------------------------------------------------------------------------
(* Claims about _optimize_semantic_journey                                 *)

SpecJourney == AllIdle /\ [][JourneyNext]_vars

\* The coroutine awaits nothing but its own _create_bridge_event, which
\* never suspends: a call that was made takes its next step.
SpecJourneyFair == SpecJourney /\ WF_vars(JourneySelect \/ JourneyReturn)

\* the entries of a sequence that are not bridges, in their order
RECURSIVE NonBridges(_)
NonBridges(sequence) ==
  IF sequence = <<>> THEN <<>>
  ELSE IF Head(sequence).is_bridge THEN NonBridges(Tail(sequence))
  ELSE <<Head(sequence)>> \o NonBridges(Tail(sequence))

\* how often an event occurs in a list
Occurrences(list, event) == Cardinality({j \in 1..Len(list) : list[j] = event})

\* what C22 says of a call that returned
JourneyOutcome ==
  LET n == Len(journey_input)
  IN  /\ journey_steps = Max2(0, n - 1)
      /\ n = 0 => journey_sequence = <<>>
      /\ n >= 1 =>
           /\ journey_sequence[1] \in JourneyEvents
           /\ \A o \in 1..n : journey_sequence[1].timestamp <= journey_input[o].timestamp
           /\ \E j \in 1..n :
                /\ journey_input[j] = journey_sequence[1]
                /\ \A o \in 1..(j - 1) :
                     journey_input[o].timestamp > journey_sequence[1].timestamp
      /\ Len(NonBridges(journey_sequence)) = n
      /\ \A event \in JourneyEvents :
           Occurrences(journey_sequence, event) = Occurrences(journey_input, event)

\* C22: _optimize_semantic_journey returns for every finite event list,
\* after exactly n - 1 selection steps for n >= 1 events; its output begins
\* with the first event of smallest timestamp and contains every input event
\* exactly once, every other entry being a bridge; an empty input gives an
\* empty output.
C22_JourneyReturns ==
  /\ (journey_pc = "loop") ~> (journey_pc = "returned")
  /\ [](journey_input = <<>> => journey_pc \in {"idle", "returned"})
  /\ [](journey_pc = "returned" => JourneyOutcome)

\* three events, the first two at the same timestamp and at different
\* positions, ordered in two selection steps
C22_Witness ==
  /\ journey_pc = "returned"
  /\ Len(journey_input) = 3
  /\ journey_input[1].timestamp = journey_input[2].timestamp
  /\ journey_input[1].position # journey_input[2].position
  /\ journey_input[3].timestamp > journey_input[1].timestamp
  /\ journey_steps = 2
  /\ journey_sequence[1] = journey_input[1]

\* the indices of the bridges of a sequence
Bridges(sequence) == {k \in 1..Len(sequence) : sequence[k].is_bridge}

\* C23: a bridge stands immediately before a selected event exactly when
\* that event lies further than 0.7 from the event selected before it; there
\* is one bridge for such a step, at the component-wise midpoint of the two
\* events, and a bridge is never the first entry, the last entry, or next to
\* another bridge.
C23_Bridges ==
  LET sequence == journey_sequence
  IN  /\ \A k \in Bridges(sequence) :
           /\ 1 < k /\ k < Len(sequence)
           /\ ~sequence[k - 1].is_bridge /\ ~sequence[k + 1].is_bridge
           /\ distance_to(sequence[k - 1].position, sequence[k + 1].position)
                > BRIDGE_DISTANCE
           /\ \A domain \in DomainNames :
                2 * sequence[k].position[domain] =
                  sequence[k - 1].position[domain] + sequence[k + 1].position[domain]
      /\ \A k \in 1..(Len(sequence) - 1) :
           (~sequence[k].is_bridge /\ ~sequence[k + 1].is_bridge) =>
             distance_to(sequence[k].position, sequence[k + 1].position) <= BRIDGE_DISTANCE

\* a returned sequence with a bridged step and an unbridged step
C23_Witness ==
  /\ journey_pc = "returned"
  /\ Bridges(journey_sequence) # {}
  /\ \E k \in 1..(Len(journey_sequence) - 1) :
       /\ ~journey_sequence[k].is_bridge
       /\ ~journey_sequence[k + 1].is_bridge
       /\ journey_sequence[k].position # journey_sequence[k + 1].position

----------------------------------------------------------------------------
(* Claims about _select_optimal_techniques                                 *)

SpecTech == AllIdle /\ [][TechNext]_vars

\* the selection the rules prescribe, in rule order
RuleOrder(analysis) ==
  (IF analysis.plot_complexity > 70 THEN <<"parallel_timelines", "convergent_timelines">>
   ELSE IF analysis.plot_complexity > 50 THEN <<"in_medias_res", "nested_flashbacks">>
   ELSE <<"in_medias_res">>)
    \o (IF "fantasy" \in Members(analysis.genre_indicators)
          THEN <<"prophetic_visions">> ELSE <<>>)
    \o (IF "mystery" \in Members(analysis.genre_indicators)
          THEN <<"reverse_chronology">> ELSE <<>>)
    \o (IF /\ analysis.revelation_points > 3
           /\ ~(analysis.plot_complexity > 50 /\ analysis.plot_complexity <= 70)
          THEN <<"nested_flashbacks">> ELSE <<>>)

\* C18: _select_optimal_techniques returns between 1 and 3 distinct
\* techniques: the complexity rule, then the genre rules, then the
\* revelation rule, cut to the first 3 entries in that order.
C18_Selection ==
  tech_pc = "returned" =>
    /\ Len(selected_techniques) \in 1..3
    /\ Members(selected_techniques) \subseteq TemporalTechnique
    /\ Cardinality(Members(selected_techniques)) = Len(selected_techniques)
    /\ \A j \in 1..Len(selected_techniques) :
         selected_techniques[j] = RuleOrder(plot_analysis)[j]
    /\ Len(selected_techniques) = Min2(3, Len(RuleOrder(plot_analysis)))

\* a complex fantasy mystery with four revelations: five rules apply and
\* the first three selections are returned
C18_Witness ==
  /\ tech_pc = "returned"
  /\ plot_analysis.plot_complexity > 70
  /\ plot_analysis.genre_indicators = <<"fantasy", "epic", "mystery">>
  /\ plot_analysis.revelation_points > 3
  /\ selected_techniques = <<"parallel_timelines", "convergent_timelines", "prophetic_visions">>

----------------------------------------------------------------------------
(* Claims about create_temporal_complexity                                 *)

SpecDsg == AllIdle /\ [][DsgNext]_vars

\* the chapters of a reading path whose events_range holds an index
ChaptersHolding(path, index) ==
  {c \in 1..Len(path) : path[c].events_range[1] <= index /\ index < path[c].events_range[2]}

\* C24: every intersection-point index of a timeline other than the main
\* one is used in the reading path: the chapter whose events_range contains
\* the index carries a perspective shift to that timeline.
C24_IntersectionsUsed ==
  dsg_pc = "returned" =>
    \A t \in 2..Len(dsg_result.timelines) :
      \A index \in Members(dsg_result.timelines[t].intersection_points) :
        \A c \in ChaptersHolding(dsg_result.reading_path, index) :
          \E k \in 1..Len(dsg_result.reading_path[c].perspective_shifts) :
            dsg_result.reading_path[c].perspective_shifts[k].timeline_id =
              dsg_result.timelines[t].timeline_id

\* C25: create_temporal_complexity completes without an exception for
\* every plot, a plot without events included.
C25_NeverRaises == dsg_pc # "raised"

\* C29: frame_narrative and time_loops are never selected, and the starting
\* point uses in_medias_res or chronological, chronological exactly when
\* the plot complexity exceeds 0.7.
C29_NoFrameNarrative ==
  dsg_pc = "returned" =>
    /\ "frame_narrative" \notin Members(dsg_result.structure_type)
    /\ "time_loops" \notin Members(dsg_result.structure_type)
    /\ dsg_result.starting_point.technique \in {"in_medias_res", "chronological"}
    /\ dsg_result.starting_point.technique = "chronological"
         <=> _assess_plot_complexity(dsg_plot.events) > 70

\* an epic of complexity above 0.7 started chronologically, and a plot of
\* lower complexity started in medias res
C29_Witness ==
  /\ dsg_pc = "returned"
  /\ "war" \in dsg_plot.words
  /\ _assess_plot_complexity(dsg_plot.events) > 70
  /\ dsg_result.starting_point.technique = "chronological"
  /\ Len(dsg_result.structure_type) = 3

====
